---------------------------- MODULE Spec2Model ----------------------------
(***************************************************************************)
(* Model of the model-resolution registry of swift.llm:                    *)
(*   - register_model and its decorator form (utils/model.py 396-454),     *)
(*   - safe_snapshot_download / get_torch_dtype / get_model_tokenizer      *)
(*     (utils/model.py 3808-3950) with a family of loaders,                *)
(*   - prepare_model_template (infer.py 121-219).                          *)
(* Python's None is the string "None".  A loader is a record               *)
(* [fn, kw]: the underlying procedure and the names of the keyword         *)
(* arguments functools.partial has bound to it.                            *)
(***************************************************************************)
EXTENDS Naturals, Integers, Sequences, FiniteSets, TLC

\* ------------------------------------------------------------------ bounds
NProcs == 2
MaxPending == 2
MaxLen == 2
MaxWrap == 2
MaxTurns == 2

\* ------------------------------------------------------------------ values
None == "None"

Procs == 1 .. NProcs

Float16 == "torch.float16"
BFloat16 == "torch.bfloat16"
Float32 == "torch.float32"
Dtypes == {Float16, BFloat16, Float32}

Plain(f) == [fn |-> f, kw |-> {}]

\* functools.partial(get_function, **function_kwargs)
Partial(get_function, function_kwargs) ==
    [fn |-> get_function.fn, kw |-> get_function.kw \cup function_kwargs]

\* ------------------------------------------------------- register_model
RegisterRaisesNever(mapping, model_type, exists_ok) == FALSE

\* `if not exists_ok and model_type in MODEL_MAPPING: raise ValueError`
RegisterRaises(mapping, model_type, exists_ok) ==
    (~exists_ok) /\ model_type \in DOMAIN mapping

\* the model_info dict with the defaults of register_model applied (an omitted
\* requires list or function_kwargs dict is the empty set)
ModelInfo(a) ==
    [model_id_or_path |-> a.model_id_or_path,
     requires         |-> a.requires,
     torch_dtype      |-> a.torch_dtype,
     hf_model_id      |-> a.hf_model_id,
     revision         |-> IF a.revision = None THEN "master" ELSE a.revision,
     eos_token        |-> a.eos_token]

\* `if len(function_kwargs) > 0: get_function = partial(...)`
BindLoader(get_function, function_kwargs) ==
    IF function_kwargs # {} THEN Partial(get_function, function_kwargs)
    ELSE get_function

WithLoader(info, loader) ==
    [model_id_or_path |-> info.model_id_or_path,
     requires         |-> info.requires,
     torch_dtype      |-> info.torch_dtype,
     hf_model_id      |-> info.hf_model_id,
     revision         |-> info.revision,
     eos_token        |-> info.eos_token,
     get_function     |-> loader]

\* `MODEL_MAPPING[model_type] = model_info`
MappingPut(mapping, model_type, model_info) ==
    [k \in DOMAIN mapping \cup {model_type} |->
        IF k = model_type THEN model_info ELSE mapping[k]]

\* ------------------------------------------------------------------ state
VARIABLES
    MODEL_MAPPING,  \* the process-wide catalog: model_type -> model_info
    factories,      \* decorator closures returned by register_model, not yet applied
    lastReg,        \* history: the last registration step and its outcome
    lastWrite       \* history: per key, the loader of the last completed registration

regVars == <<MODEL_MAPPING, factories, lastReg, lastWrite>>

VARIABLES
    pc,        \* per process: position inside get_model_tokenizer
    call,      \* per process: the arguments of the running call
    st,        \* per process: locals of safe_snapshot_download
    events,    \* per process: the external effects of the running call, in order
    ret,       \* per process: outcome of the call (returned pair or exception)
    ddp_lock   \* the set of processes inside the safe_ddp_context scope

resVars == <<pc, call, st, events, ret, ddp_lock>>

VARIABLES
    args,      \* per process: the InferArguments of a running prepare_model_template
    prep       \* per process: outcome of prepare_model_template

prepVars == <<args, prep>>

VARIABLES
    runtime    \* per process: the interpreter's installed libraries and the
               \* shared library targets it has patched

VARIABLES
    merge,        \* per process: the running merge_lora call
    merged_dirs   \* the merged weight directories present on disk

mergeVars == <<merge, merged_dirs>>

VARIABLES
    disk,         \* the checkpoint directories present in the model folder
    lastLoad      \* history: the last direct call of a registered loader

loaderVars == <<disk, lastLoad>>

VARIABLES
    cfg,          \* the settings of the interactive loop (args and template)
    loop_pc,      \* "read": waiting for input; "exited": the loop was left
    input_mode,   \* 'S' or 'M'
    history,      \* the conversation history handed to the next generation
    infer_kwargs, \* the keys of the extra arguments of the next generation
    system,       \* the system prompt
    read_system,  \* the next input is the system prompt
    result,       \* the recorded turns
    lastGen,      \* history: the arguments of the last generation
    lastInput,    \* history: the last input and the state it met
    batch         \* the dataset branch: its options, the dataset, the position

loopVars == <<cfg, loop_pc, input_mode, history, infer_kwargs, system, read_system,
              result, lastGen, lastInput, batch>>

vars == <<MODEL_MAPPING, factories, lastReg, lastWrite, pc, call, st, events, ret,
          ddp_lock, args, prep, runtime, merge, merged_dirs, cfg, loop_pc,
          input_mode, history, infer_kwargs, system, read_system, result, lastGen,
          lastInput, batch, disk, lastLoad>>


\* ----------------------------------------------------- the shipped catalog
LoaderFns == {"from_repo", "with_flash_attn", "llama2", "internlm_chat",
              "qwen1half", "qwen1half_intx", "internlm2", "baichuan_13b", "chatglm"}

Entry(id, hf, loader, requires, dtype, eos) ==
    WithLoader(ModelInfo([model_id_or_path |-> id, requires |-> requires,
                          torch_dtype |-> dtype, hf_model_id |-> hf,
                          revision |-> None, eos_token |-> eos]), loader)

\* Representative static registrations of utils/model.py.
ShippedCatalog ==
    [k \in {"llama2-7b-chat", "deepseek-coder-1_3b-instruct", "internlm-7b-chat-8k",
            "qwen1half-0_5b-chat-int4", "baichuan-13b", "chatglm2-6b", "codegeex2-6b",
            "wizardlm2-7b-awq", "xverse-13b-256k"} |->
        CASE k = "llama2-7b-chat" ->
               Entry("modelscope/Llama-2-7b-chat-ms", "meta-llama/Llama-2-7b-chat-hf",
                     Plain("llama2"), {}, None, None)
          [] k = "deepseek-coder-1_3b-instruct" ->
               Entry("deepseek-ai/deepseek-coder-1.3b-instruct",
                     "deepseek-ai/deepseek-coder-1.3b-instruct",
                     Plain("with_flash_attn"), {}, None, "<|EOT|>")
          [] k = "internlm-7b-chat-8k" ->
               Entry("Shanghai_AI_Laboratory/internlm-chat-7b-8k", None,
                     Plain("internlm_chat"), {}, None, None)
          [] k = "qwen1half-0_5b-chat-int4" ->
               Entry("qwen/Qwen1.5-0.5B-Chat-GPTQ-Int4", "Qwen/Qwen1.5-0.5B-Chat-GPTQ-Int4",
                     BindLoader(Plain("qwen1half_intx"), {"gptq_bits"}),
                     {"auto_gptq>=0.5", "transformers>=4.37"}, Float16, None)
          [] k = "chatglm2-6b" ->
               Entry("ZhipuAI/chatglm2-6b", "THUDM/chatglm2-6b",
                     Plain("chatglm"), {}, None, None)
          [] k = "codegeex2-6b" ->
               Entry("ZhipuAI/codegeex2-6b", "THUDM/codegeex2-6b",
                     Plain("chatglm"), {"transformers<4.34"}, None, None)
          [] k = "xverse-13b-256k" ->
               [Entry("xverse/XVERSE-13B-256K", "xverse/XVERSE-13B-256K",
                      Plain("from_repo"), {}, None, None)
                   EXCEPT !.revision = "v1.0.0"]
          [] k = "wizardlm2-7b-awq" ->
               Entry("AI-ModelScope/WizardLM-2-7B-AWQ", "MaziyarPanahi/WizardLM-2-7B-AWQ",
                     BindLoader(Plain("with_flash_attn"), {"is_awq"}),
                     {"transformers>=4.34"}, Float16, None)
          [] OTHER ->
               Entry("baichuan-inc/Baichuan-13B-Base", "baichuan-inc/Baichuan-13B-Base",
                     Plain("baichuan_13b"), {"transformers<4.34"}, None, None)]

\* ------------------------------------------------ registration arguments
RegArg(k, f, kw, ok, dtype, eos) ==
    [model_type |-> k, model_id_or_path |-> "user/custom-model", hf_model_id |-> None,
     get_function |-> f, requires |-> {}, torch_dtype |-> dtype, revision |-> None,
     function_kwargs |-> kw, exists_ok |-> ok, eos_token |-> eos]

\* calls explored by the registration specification
RegArgs ==
    {RegArg(k, f, kw, ok, None, None) :
        k \in {"custom", "llama2-7b-chat"},
        f \in {Plain("from_repo"), Plain("internlm_chat")},
        kw \in {{}, {"gptq_bits"}},
        ok \in BOOLEAN}

\* the procedures a decorator is applied to
DecoratedFns == {Plain("from_repo"), Plain("internlm_chat")}

NoLoader == [fn |-> None, kw |-> {}]

RegInit ==
    /\ MODEL_MAPPING = ShippedCatalog
    /\ factories = {}
    /\ lastReg = [tick |-> FALSE, op |-> "none", key |-> None, exists_ok |-> FALSE,
                  existed |-> FALSE, raised |-> FALSE, loader |-> NoLoader,
                  returned |-> NoLoader]
    /\ lastWrite = [k \in DOMAIN ShippedCatalog |-> ShippedCatalog[k].get_function]

\* register_model(model_type, ..., get_function=f, ...): the direct form
RegisterDirect(a) ==
    /\ \A p \in Procs : pc[p] = "idle"
    /\ UNCHANGED <<resVars, prepVars, runtime, mergeVars, loaderVars, loopVars>>
    /\ IF RegisterRaises(MODEL_MAPPING, a.model_type, a.exists_ok)
       THEN /\ UNCHANGED <<MODEL_MAPPING, lastWrite>>
            /\ lastReg' = [tick |-> ~lastReg.tick, op |-> "direct", key |-> a.model_type,
                           exists_ok |-> a.exists_ok,
                           existed |-> a.model_type \in DOMAIN MODEL_MAPPING,
                           raised |-> TRUE, loader |-> NoLoader, returned |-> NoLoader]
       ELSE LET loader == BindLoader(a.get_function, a.function_kwargs) IN
            /\ MODEL_MAPPING' = MappingPut(MODEL_MAPPING, a.model_type,
                                           WithLoader(ModelInfo(a), loader))
            /\ lastWrite' = [k \in DOMAIN lastWrite \cup {a.model_type} |->
                                IF k = a.model_type
                                THEN (IF a.function_kwargs = {} THEN a.get_function
                                      ELSE [fn |-> a.get_function.fn,
                                            kw |-> a.get_function.kw \cup a.function_kwargs])
                                ELSE lastWrite[k]]
            /\ lastReg' = [tick |-> ~lastReg.tick, op |-> "direct", key |-> a.model_type,
                           exists_ok |-> a.exists_ok,
                           existed |-> a.model_type \in DOMAIN MODEL_MAPPING,
                           raised |-> FALSE, loader |-> a.get_function,
                           returned |-> NoLoader]
    /\ UNCHANGED factories

\* register_model(model_type, ...) without get_function: returns _register_model
RegisterFactory(a) ==
    /\ \A p \in Procs : pc[p] = "idle"
    /\ UNCHANGED <<resVars, prepVars, runtime, mergeVars, loaderVars, loopVars>>
    /\ Cardinality(factories) < MaxPending
    /\ IF RegisterRaises(MODEL_MAPPING, a.model_type, a.exists_ok)
       THEN /\ UNCHANGED factories
            /\ lastReg' = [tick |-> ~lastReg.tick, op |-> "factory", key |-> a.model_type,
                           exists_ok |-> a.exists_ok,
                           existed |-> a.model_type \in DOMAIN MODEL_MAPPING,
                           raised |-> TRUE, loader |-> NoLoader, returned |-> NoLoader]
       ELSE /\ factories' = factories \cup
                   {[model_type |-> a.model_type, model_info |-> ModelInfo(a),
                     function_kwargs |-> a.function_kwargs, exists_ok |-> a.exists_ok]}
            /\ lastReg' = [tick |-> ~lastReg.tick, op |-> "factory", key |-> a.model_type,
                           exists_ok |-> a.exists_ok,
                           existed |-> a.model_type \in DOMAIN MODEL_MAPPING,
                           raised |-> FALSE, loader |-> NoLoader, returned |-> NoLoader]
    /\ UNCHANGED <<MODEL_MAPPING, lastWrite>>

DecoratorReturnsBound(get_function, function_kwargs) ==
    BindLoader(get_function, function_kwargs)

\* lines 447 and 452: the closure returns the procedure it was given
DecoratorReturn(get_function, function_kwargs) == get_function

\* _register_model(get_function): the closure applied to a loader procedure
ApplyDecorator(c, f) ==
    /\ \A p \in Procs : pc[p] = "idle"
    /\ UNCHANGED <<resVars, prepVars, runtime, mergeVars, loaderVars, loopVars>>
    /\ c \in factories
    /\ LET loader == BindLoader(f, c.function_kwargs) IN
       /\ MODEL_MAPPING' = MappingPut(MODEL_MAPPING, c.model_type,
                                      WithLoader(c.model_info, loader))
       /\ lastWrite' = [k \in DOMAIN lastWrite \cup {c.model_type} |->
                           IF k = c.model_type
                           THEN (IF c.function_kwargs = {} THEN f
                                 ELSE [fn |-> f.fn, kw |-> f.kw \cup c.function_kwargs])
                           ELSE lastWrite[k]]
    /\ factories' = factories \ {c}
    /\ lastReg' = [tick |-> ~lastReg.tick, op |-> "apply", key |-> c.model_type,
                   exists_ok |-> c.exists_ok,
                   existed |-> c.model_type \in DOMAIN MODEL_MAPPING,
                   raised |-> FALSE, loader |-> f,
                   returned |-> DecoratorReturn(f, c.function_kwargs)]

\* ------------------------------------------------------ resolution values
\* model_kwargs without a quantization_config; a BitsAndBytesConfig has
\* kind "bnb" and a bnb_4bit_compute_dtype (None or a dtype)
NoQuant == [kind |-> "none", bnb_4bit_compute_dtype |-> None]

NoCall == [model_type |-> None, torch_dtype |-> None, load_model |-> TRUE,
           is_training |-> FALSE,
           model_id_or_path |-> None, revision |-> None,
           quantization_config |-> NoQuant]
\* a directory: None, a local path, or a provider's cache entry for an identifier
NoDir == [root |-> None, path |-> None]
LocalDir(path) == [root |-> "/", path |-> path]
CacheDir(provider, id) == [root |-> provider, path |-> id]

\* an optional integer is the empty set (None) or a singleton
NoLen == {}

\* Python's None in the place of a model or of a tokenizer
\* no generation config (the attribute is None, the file is missing);
\* temperature is counted in tenths
NoGen == [present |-> FALSE, temperature |-> 0, do_sample |-> FALSE]

NoModel == [loaded |-> FALSE, torch_dtype |-> None, gptq_bits |-> FALSE,
            is_awq |-> FALSE, max_model_len |-> NoLen, model_type |-> None,
            model_dir |-> NoDir, generation_config |-> NoGen,
            is_loaded_in_4bit |-> FALSE]
NoTokenizer == [eos_token |-> None, pad_token |-> None, model_type |-> None,
                model_dir |-> NoDir]

NoSt == [use_hf |-> FALSE, model_id_or_path |-> None, revision |-> None,
         model_dir |-> NoDir]
NoCkpt == [torch_dtype |-> None, eos_token |-> None, pad_token |-> None,
           max_model_len |-> NoLen, generation_config |-> NoGen,
           generation_file |-> NoGen]
NoRet == [status |-> "none", error |-> None, model |-> NoModel,
          tokenizer |-> NoTokenizer, torch_dtype |-> None, ckpt |-> NoCkpt,
          model_dir |-> NoDir, quantization_config |-> NoQuant]

\* no prepare_model_template running / no outcome yet
NoArgs == [model_type |-> None, torch_dtype |-> None, sft_type |-> None,
           ckpt_dir |-> None, model_id_or_path |-> None, model_revision |-> None,
           max_model_len |-> NoLen]

NoPrep == [status |-> "none", error |-> None, max_model_len |-> NoLen,
           adapter |-> None]

\* no merge_lora running
\* (existed: what line 94 found; again: the call reuses the args of the
\* call before it)
NoMerge == [status |-> "none", error |-> None, ckpt_dir |-> None,
            merged_lora_path |-> None, replace_if_exists |-> FALSE,
            existed |-> FALSE, again |-> FALSE]

MergeInit ==
    /\ merge = [p \in Procs |-> NoMerge]
    /\ merged_dirs = {}

PrepInit ==
    /\ args = [p \in Procs |-> NoArgs]
    /\ prep = [p \in Procs |-> NoPrep]

\* a function of a shared library is the number of wrappers around its original
Original == 0

\* accelerate.infer_auto_device_map: the library's own function, or the lambda
\* of get_model_tokenizer_baichuan2_int4 that returns the captured device_map
OriginalInfer == [lambda |-> FALSE, device_map |-> None]
ConstantMap(device_map) == [lambda |-> TRUE, device_map |-> device_map]

\* an interpreter that has resolved nothing yet: what is installed (env) and
\* the unpatched targets
FreshRuntime(env) ==
    [torch_ge_2          |-> env.torch_ge_2,
     tf_has_checkpoint   |-> env.tf_has_checkpoint,
     awq_ext             |-> env.awq_ext,
     auto_gptq           |-> env.auto_gptq,
     checkpoint          |-> Original,
     has_old_checkpoint  |-> FALSE,
     tf_checkpoint       |-> Original,
     ce_forward          |-> Original,
     ql_forward          |-> Original,
     ql_has_old_forward  |-> FALSE,
     infer_auto_device_map |-> OriginalInfer]

Envs == [torch_ge_2 : BOOLEAN, tf_has_checkpoint : BOOLEAN,
         awq_ext : BOOLEAN, auto_gptq : BOOLEAN]

\* torch >= 2, transformers.modeling_utils.checkpoint present, extensions installed
FullEnv == [torch_ge_2 |-> TRUE, tf_has_checkpoint |-> TRUE,
            awq_ext |-> TRUE, auto_gptq |-> TRUE]

\* the processes of one run share one installation
RuntimeInit(envs) == \E e \in envs : runtime = [p \in Procs |-> FreshRuntime(e)]

ResInit ==
    /\ pc = [p \in Procs |-> "idle"]
    /\ call = [p \in Procs |-> NoCall]
    /\ st = [p \in Procs |-> NoSt]
    /\ events = [p \in Procs |-> <<>>]
    /\ ret = [p \in Procs |-> NoRet]
    /\ ddp_lock = {}

Raised(err) ==
    [status |-> "raised", error |-> err, model |-> NoModel, tokenizer |-> NoTokenizer,
     torch_dtype |-> None, ckpt |-> NoCkpt, model_dir |-> NoDir,
     quantization_config |-> NoQuant]

\* --------------------------------------------------------- the file system
LocalDirs == {"/ckpt/local"}

\* os.path.exists
PathExists(path) == path \in LocalDirs

\* ------------------------------------------------ safe_snapshot_download
\* which of the two catalog locations applies
DefaultLocation(model_info, use_hf) ==
    IF use_hf THEN model_info.hf_model_id ELSE model_info.model_id_or_path

SsdPrologEnvFirst(mapping, c, use_hf) ==
    IF c.model_type \notin DOMAIN mapping
    THEN [raised |-> TRUE, events |-> <<"env:USE_HF">>, st |-> NoSt]
    ELSE [raised |-> FALSE, events |-> <<"env:USE_HF">>,
          st |-> [use_hf |-> use_hf,
                  model_id_or_path |->
                     IF c.model_id_or_path = None
                     THEN DefaultLocation(mapping[c.model_type], use_hf)
                     ELSE c.model_id_or_path,
                  revision |-> c.revision,
                  model_dir |-> NoDir]]

\* lines 3813-3821: the catalog lookup (KeyError), then the USE_HF read, then
\* the location: the caller's, else the catalog's for the selected provider
SsdProlog(mapping, c, use_hf) ==
    IF c.model_type \notin DOMAIN mapping
    THEN [raised |-> TRUE, events |-> <<>>, st |-> NoSt]
    ELSE [raised |-> FALSE, events |-> <<"env:USE_HF">>,
          st |-> [use_hf |-> use_hf,
                  model_id_or_path |->
                     IF c.model_id_or_path = None
                     THEN DefaultLocation(mapping[c.model_type], use_hf)
                     ELSE c.model_id_or_path,
                  revision |-> c.revision,
                  model_dir |-> NoDir]]

\* get_model_tokenizer is called and enters safe_snapshot_download
Call(p, c) ==
    /\ pc[p] = "idle"
    /\ args[p] = NoArgs
    /\ call' = [call EXCEPT ![p] = c]
    /\ \E use_hf \in BOOLEAN :
         LET r == SsdProlog(MODEL_MAPPING, c, use_hf) IN
         /\ events' = [events EXCEPT ![p] = r.events]
         /\ st' = [st EXCEPT ![p] = r.st]
         /\ IF r.raised
            THEN /\ pc' = [pc EXCEPT ![p] = "raised"]
                 /\ ret' = [ret EXCEPT ![p] = Raised("KeyError")]
            ELSE /\ pc' = [pc EXCEPT ![p] = "ssd_enter"]
                 /\ UNCHANGED ret
    /\ UNCHANGED <<regVars, loopVars, mergeVars, loaderVars, runtime, prepVars, ddp_lock>>

\* `with safe_ddp_context():` entered
DdpEnter(p) ==
    /\ pc[p] = "ssd_enter"
    /\ ddp_lock = {}
    /\ ddp_lock' = {p}
    /\ pc' = [pc EXCEPT ![p] = "ssd_in"]
    /\ events' = [events EXCEPT ![p] = Append(@, "ddp:enter")]
    /\ UNCHANGED <<regVars, loopVars, mergeVars, loaderVars, runtime, prepVars, call, st, ret>>

ProviderRevisionIgnoresCaller(model_info, use_hf, revision) ==
    IF use_hf THEN "main" ELSE model_info.revision

\* the revision handed to the provider (lines 3829-3830, 3845-3846)
ProviderRevision(model_info, use_hf, revision) ==
    IF revision # None THEN revision
    ELSE IF use_hf THEN "main" ELSE model_info.revision

\* lines 3824-3853 up to the provider call, or line 3855
SsdBegin(p) ==
    /\ pc[p] = "ssd_in"
    /\ LET id == st[p].model_id_or_path
           info == MODEL_MAPPING[call[p].model_type] IN
       IF id # None /\ ~PathExists(id)
       THEN /\ st' = [st EXCEPT ![p].revision =
                         ProviderRevision(info, st[p].use_hf, st[p].revision)]
            /\ events' = [events EXCEPT ![p] =
                            IF st[p].use_hf
                            THEN @ \o <<"fs:exists", "env:USE_HF_TRANSFER", "net:hf">>
                            ELSE @ \o <<"fs:exists", "net:ms">>]
            /\ pc' = [pc EXCEPT ![p] = "ssd_downloading"]
       ELSE /\ st' = [st EXCEPT ![p].model_dir =
                         IF id = None THEN NoDir ELSE LocalDir(id)]
            /\ events' = [events EXCEPT ![p] =
                            IF id = None THEN @ ELSE Append(@, "fs:exists")]
            /\ pc' = [pc EXCEPT ![p] = "ssd_exit"]
    /\ UNCHANGED <<regVars, loopVars, mergeVars, loaderVars, runtime, prepVars, call, ret, ddp_lock>>

\* the provider returns the materialized directory, or fails
SsdFinish(p) ==
    /\ pc[p] = "ssd_downloading"
    /\ \E ok \in BOOLEAN :
        IF ok
        THEN /\ st' = [st EXCEPT ![p].model_dir =
                          CacheDir(IF st[p].use_hf THEN "hf" ELSE "ms",
                                   st[p].model_id_or_path)]
             /\ pc' = [pc EXCEPT ![p] = "ssd_exit"]
             /\ UNCHANGED <<ret, ddp_lock, events>>
        ELSE /\ pc' = [pc EXCEPT ![p] = "raised"]
             /\ ret' = [ret EXCEPT ![p] = Raised("DownloadError")]
             /\ ddp_lock' = ddp_lock \ {p}
             /\ events' = [events EXCEPT ![p] = Append(@, "ddp:exit")]
             /\ UNCHANGED st
    /\ UNCHANGED <<regVars, loopVars, mergeVars, loaderVars, runtime, prepVars, call>>

DdpExitKeepsScope(p) ==
    /\ pc[p] = "ssd_exit"
    /\ UNCHANGED ddp_lock
    /\ IF st[p].model_dir = NoDir
       THEN /\ pc' = [pc EXCEPT ![p] = "raised"]
            /\ ret' = [ret EXCEPT ![p] = Raised("TypeError")]
            /\ events' = [events EXCEPT ![p] = Append(@, "ddp:exit")]
       ELSE /\ pc' = [pc EXCEPT ![p] = "resolve"]
            /\ events' = [events EXCEPT ![p] = @ \o <<"ddp:exit", "fs:isdir">>]
            /\ UNCHANGED ret
    /\ UNCHANGED <<regVars, loopVars, mergeVars, loaderVars, runtime, prepVars, call, st>>

\* the `with` block of line 3823 ends; then lines 3858-3860
DdpExit(p) ==
    /\ pc[p] = "ssd_exit"
    /\ ddp_lock' = ddp_lock \ {p}
    /\ IF st[p].model_dir = NoDir
       THEN /\ pc' = [pc EXCEPT ![p] = "raised"]
            /\ ret' = [ret EXCEPT ![p] = Raised("TypeError")]
            /\ events' = [events EXCEPT ![p] = Append(@, "ddp:exit")]
       ELSE /\ pc' = [pc EXCEPT ![p] = "resolve"]
            /\ events' = [events EXCEPT ![p] = @ \o <<"ddp:exit", "fs:isdir">>]
            /\ UNCHANGED ret
    /\ UNCHANGED <<regVars, loopVars, mergeVars, loaderVars, runtime, prepVars, call, st>>


\* ---------------------------------------------------------------- dtypes
\* eval(f'torch.{torch_dtype}') of the string stored in config.json
TorchEval(name) ==
    CASE name = "float16" -> Float16
      [] name = "bfloat16" -> BFloat16
      [] name = "float32" -> Float32
      [] OTHER -> None

GetTorchDtypeNoDowngrade(config_dtype) ==
    IF config_dtype = None THEN None ELSE TorchEval(config_dtype)

\* get_torch_dtype(model_dir): the config's dtype, float32 downgraded to float16
GetTorchDtype(config_dtype) ==
    LET torch_dtype == IF config_dtype = None THEN None ELSE TorchEval(config_dtype) IN
    IF torch_dtype = Float32 THEN Float16 ELSE torch_dtype

DetermineDtypeLenient(model_torch_dtype, torch_dtype, config_dtype) ==
    IF model_torch_dtype # None
    THEN [ok |-> TRUE,
          torch_dtype |-> IF torch_dtype = None THEN model_torch_dtype ELSE torch_dtype]
    ELSE [ok |-> TRUE,
          torch_dtype |-> IF torch_dtype = None THEN GetTorchDtype(config_dtype)
                          ELSE torch_dtype]

\* get_model_tokenizer lines 3900-3917: the dtype handed to the loader
DetermineDtype(model_torch_dtype, torch_dtype, config_dtype) ==
    IF model_torch_dtype # None
    THEN IF torch_dtype = None THEN [ok |-> TRUE, torch_dtype |-> model_torch_dtype]
         ELSE [ok |-> torch_dtype = model_torch_dtype, torch_dtype |-> torch_dtype]
    ELSE [ok |-> TRUE,
          torch_dtype |-> IF torch_dtype = None THEN GetTorchDtype(config_dtype)
                          ELSE torch_dtype]

\* get_model_tokenizer lines 3910-3917: the quantization_config of the
\* model_kwargs the loader receives
QuantizationConfig(quantization_config, model_torch_dtype, torch_dtype, resolved) ==
    IF /\ model_torch_dtype = None /\ torch_dtype = None
       /\ quantization_config.kind = "bnb"
       /\ quantization_config.bnb_4bit_compute_dtype = None
    THEN [quantization_config EXCEPT !.bnb_4bit_compute_dtype = resolved]
    ELSE quantization_config

\* ---------------------------------------------------------------- loaders
\* What a loader returns: (model, tokenizer), or an exception.
Loaded(model, tokenizer) ==
    [raised |-> FALSE, error |-> None, model |-> model, tokenizer |-> tokenizer]
LoaderRaised(err) ==
    [raised |-> TRUE, error |-> err, model |-> NoModel, tokenizer |-> NoTokenizer]

SetEos(r, eos_token) ==
    Loaded(r.model, [r.tokenizer EXCEPT !.eos_token = eos_token])

\* get_model_tokenizer_from_repo with is_training=False: the tokenizer of the
\* checkpoint with the eos_token keyword applied, the model if load_model
FromRepo(ckpt, torch_dtype, load_model, kw, eos_token) ==
    Loaded(IF load_model
           THEN [NoModel EXCEPT !.loaded = TRUE, !.torch_dtype = torch_dtype,
                                !.gptq_bits = "gptq_bits" \in kw,
                                !.is_awq = "is_awq" \in kw,
                                !.generation_config = ckpt.generation_config]
           ELSE NoModel,
           [NoTokenizer EXCEPT
              !.eos_token = IF eos_token # None THEN eos_token ELSE ckpt.eos_token,
              !.pad_token = ckpt.pad_token])

\* get_model_tokenizer_with_flash_attn
WithFlashAttn(ckpt, torch_dtype, load_model, kw, eos_token) ==
    FromRepo(ckpt, torch_dtype, load_model, kw, eos_token)

Llama2Remembered(ckpt, torch_dtype, load_model, kw, eos_token) ==
    WithFlashAttn([ckpt EXCEPT !.eos_token = "</s>"], torch_dtype, load_model, kw,
                  eos_token)

\* get_model_tokenizer_llama2
Llama2(ckpt, torch_dtype, load_model, kw, eos_token) ==
    WithFlashAttn(ckpt, torch_dtype, load_model, kw, eos_token)

\* get_model_tokenizer_internlm_chat: eos forced to '<eoa>' after the load
InternlmChat(ckpt, torch_dtype, load_model, kw, eos_token) ==
    SetEos(FromRepo(ckpt, torch_dtype, load_model, kw, eos_token), "<eoa>")

\* get_model_tokenizer_qwen1half: kwargs['eos_token'] = '<|im_end|>'
Qwen1half(ckpt, torch_dtype, load_model, kw, eos_token) ==
    WithFlashAttn(ckpt, torch_dtype, load_model, kw, "<|im_end|>")

\* get_model_tokenizer_qwen1half_intx -> get_model_tokenizer_qwen_intx
Qwen1halfIntx(ckpt, torch_dtype, load_model, kw, eos_token) ==
    Qwen1half(ckpt, torch_dtype, load_model, kw, eos_token)

\* get_model_tokenizer_internlm2: eos_token popped, applied after the load
Internlm2(ckpt, torch_dtype, load_model, kw, eos_token) ==
    LET r == FromRepo(ckpt, torch_dtype, load_model, kw, None) IN
    IF eos_token # None THEN SetEos(r, eos_token) ELSE r

\* get_model_tokenizer_baichuan_13b: model.get_input_embeddings() on the result
Baichuan13b(ckpt, torch_dtype, load_model, kw, eos_token) ==
    LET r == FromRepo(ckpt, torch_dtype, load_model, kw, eos_token) IN
    IF ~r.model.loaded THEN LoaderRaised("AttributeError") ELSE r

\* get_model_tokenizer_chatglm: the tokenizer and the model of the base loader
Chatglm(ckpt, torch_dtype, load_model, kw, eos_token) ==
    FromRepo(ckpt, torch_dtype, load_model, kw, eos_token)

\* get_function(model_dir, torch_dtype, model_kwargs, load_model, **kwargs)
InvokeLoader(get_function, ckpt, torch_dtype, load_model, eos_token) ==
    LET kw == get_function.kw
        fn == get_function.fn IN
    CASE fn = "chatglm"         -> Chatglm(ckpt, torch_dtype, load_model, kw, eos_token)
      [] fn = "from_repo"       -> FromRepo(ckpt, torch_dtype, load_model, kw, eos_token)
      [] fn = "with_flash_attn" -> WithFlashAttn(ckpt, torch_dtype, load_model, kw, eos_token)
      [] fn = "llama2"          -> Llama2(ckpt, torch_dtype, load_model, kw, eos_token)
      [] fn = "internlm_chat"   -> InternlmChat(ckpt, torch_dtype, load_model, kw, eos_token)
      [] fn = "qwen1half"       -> Qwen1half(ckpt, torch_dtype, load_model, kw, eos_token)
      [] fn = "qwen1half_intx"  -> Qwen1halfIntx(ckpt, torch_dtype, load_model, kw, eos_token)
      [] fn = "internlm2"       -> Internlm2(ckpt, torch_dtype, load_model, kw, eos_token)
      [] OTHER                  -> Baichuan13b(ckpt, torch_dtype, load_model, kw, eos_token)


\* ------------------------------------------- effects on the shared libraries
\* get_model_tokenizer_from_repo lines 770-773 with an extension missing:
\* _check_awq_ext and _check_gptq_model import it, only when is_training
CheckExt(kw, is_training, rt) ==
    IF "is_awq" \in kw /\ is_training /\ ~rt.awq_ext THEN "ImportError"
    ELSE IF "gptq_bits" \in kw /\ is_training /\ ~rt.auto_gptq THEN "ImportError"
    ELSE None

\* _check_gptq_model lines 477-492: QuantLinear.forward wrapped unless
\* QuantLinear already has `__old_forward`
CheckGptqModel(rt) ==
    IF rt.ql_has_old_forward THEN rt
    ELSE [rt EXCEPT !.ql_has_old_forward = TRUE, !.ql_forward = @ + 1]

\* get_model_tokenizer_chatglm lines 1243-1252: CrossEntropyLoss.forward is
\* replaced by a wrapper around the current CrossEntropyLoss.forward
ChatglmPatch(rt) == [rt EXCEPT !.ce_forward = @ + 1]

\* the shared libraries after the loader ran
LoaderRuntime(get_function, load_model, is_training, rt) ==
    LET a == IF "gptq_bits" \in get_function.kw /\ is_training
             THEN CheckGptqModel(rt) ELSE rt IN
    IF get_function.fn = "chatglm" /\ load_model THEN ChatglmPatch(a) ELSE a

\* ------------------------------------------ loaders with effects outside
\* get_model_tokenizer_baichuan2 (get_model_tokenizer_baichuan2_13b in front of
\* it for the 13b entry): the pair of the base loader
Baichuan2(ckpt, torch_dtype, load_model, kw, eos_token) ==
    FromRepo(ckpt, torch_dtype, load_model, kw, eos_token)

\* get_model_tokenizer_baichuan2_int4 on the interpreter rt. inner_raises: the
\* inner loader (get_baichuan2_function) raises instead of returning.
Baichuan2Int4(rt, ckpt, torch_dtype, device_map, load_model, inner_raises) ==
    LET _old_infer_auto_device_map == rt.infer_auto_device_map
        patched == IF device_map # "auto"
                   THEN [rt EXCEPT !.infer_auto_device_map = ConstantMap(device_map)]
                   ELSE rt
        r == Baichuan2(ckpt, torch_dtype, load_model, {}, None) IN
    IF inner_raises
    THEN [result |-> LoaderRaised("OSError"), rt |-> patched]
    ELSE [result |-> IF r.model.loaded
                     THEN Loaded([r.model EXCEPT !.is_loaded_in_4bit = TRUE],
                                 r.tokenizer)
                     ELSE r,
          rt |-> IF device_map # "auto"
                 THEN [patched EXCEPT
                         !.infer_auto_device_map = _old_infer_auto_device_map]
                 ELSE patched]

\* A directory name is the sequence of its pieces, every '.' a piece of its own.
\* '.' in model_name
NeedRename(model_name) == \E i \in DOMAIN model_name : model_name[i] = "."

\* model_name.replace('.', '_')
Replace(model_name) ==
    [i \in DOMAIN model_name |-> IF model_name[i] = "." THEN "_" ELSE model_name[i]]

\* os.rename(src, dst) inside one folder whose directories are d; a checkpoint
\* directory is never empty, so an existing dst is an error
Rename(d, src, dst) ==
    IF src \notin d THEN [raised |-> TRUE, error |-> "FileNotFoundError", disk |-> d]
    ELSE IF dst \in d THEN [raised |-> TRUE, error |-> "OSError", disk |-> d]
    ELSE [raised |-> FALSE, error |-> None, disk |-> (d \ {src}) \cup {dst}]

\* get_model_tokenizer_yuan(model_dir = model_folder/model_name) with the
\* folder's directories d. readable: the files of an existing directory load.
Yuan(d, model_name, ckpt, torch_dtype, load_model, readable) ==
    LET need_rename == NeedRename(model_name)
        new_model_name == Replace(model_name)
        there == IF need_rename THEN Rename(d, model_name, new_model_name)
                 ELSE [raised |-> FALSE, error |-> None, disk |-> d]
        \* from_pretrained(model_dir, ...): the path handed over, and whether
        \* it is a directory at that moment
        read == [path |-> model_name, existed |-> model_name \in there.disk]
        back == IF need_rename THEN Rename(there.disk, new_model_name, model_name)
                ELSE there IN
    IF there.raised
    THEN [result |-> LoaderRaised(there.error), disk |-> there.disk, reads |-> <<>>]
    ELSE IF ~(read.existed /\ readable)
    THEN [result |-> LoaderRaised("OSError"), disk |-> there.disk,
          reads |-> <<read>>]
    ELSE [result |-> IF back.raised THEN LoaderRaised(back.error)
                     ELSE FromRepo([ckpt EXCEPT !.eos_token = "<eod>"],
                                   torch_dtype, load_model, {}, None),
          disk |-> back.disk, reads |-> <<read, read, read>>]

\* YuanLLM/Yuan2.0-2B-hf and YuanLLM/Yuan2-2B-Janus-hf inside the cache folder
Yuan2_0 == <<"Yuan2", ".", "0-2B-hf">>
Yuan2Janus == <<"Yuan2-2B-Janus-hf">>
YuanNames == {Yuan2_0, Yuan2Janus}

DeviceMaps == {"auto", "cuda:0", None}

LoaderCkpt == [torch_dtype |-> "bfloat16", eos_token |-> "</s>", pad_token |-> None,
               max_model_len |-> NoLen,
               generation_config |-> NoGen, generation_file |-> NoGen]

NoLoad == [fn |-> None, device_map |-> None, model_name |-> <<>>,
           before |-> OriginalInfer, after |-> OriginalInfer,
           disk_before |-> {}, disk_after |-> {}, reads |-> <<>>,
           result |-> LoaderRaised(None)]

LoaderInit ==
    /\ disk = YuanNames
    /\ lastLoad = NoLoad

\* the registered loader of baichuan2-7b-chat-int4 called in process p
Baichuan2Int4Call(p, device_map, load_model, inner_raises) ==
    LET r == Baichuan2Int4(runtime[p], LoaderCkpt, BFloat16, device_map, load_model,
                           inner_raises) IN
    /\ pc[p] = "idle"
    /\ runtime' = [runtime EXCEPT ![p] = r.rt]
    /\ lastLoad' = [NoLoad EXCEPT
                      !.fn = "baichuan2_int4", !.device_map = device_map,
                      !.before = runtime[p].infer_auto_device_map,
                      !.after = r.rt.infer_auto_device_map,
                      !.disk_before = disk, !.disk_after = disk,
                      !.result = r.result]
    /\ UNCHANGED <<regVars, resVars, prepVars, mergeVars, loopVars, disk>>

\* the registered loader of the yuan2 entries called in process p
YuanCall(p, model_name, load_model, readable) ==
    LET r == Yuan(disk, model_name, LoaderCkpt, BFloat16, load_model, readable) IN
    /\ pc[p] = "idle"
    /\ disk' = r.disk
    /\ lastLoad' = [NoLoad EXCEPT
                      !.fn = "yuan", !.model_name = model_name,
                      !.before = runtime[p].infer_auto_device_map,
                      !.after = runtime[p].infer_auto_device_map,
                      !.disk_before = disk, !.disk_after = r.disk,
                      !.reads = r.reads, !.result = r.result]
    /\ UNCHANGED <<regVars, resVars, prepVars, mergeVars, loopVars, runtime>>

\* safe_snapshot_download: a model_dir that does not exist is downloaded
Materialise(model_name) ==
    /\ model_name \notin disk
    /\ disk' = disk \cup {model_name}
    /\ UNCHANGED <<regVars, resVars, prepVars, mergeVars, loopVars, runtime, lastLoad>>

\* fix_gradient_checkpointing_warning lines 3780-3805
FixGradientCheckpointingWarning(rt) ==
    IF ~rt.torch_ge_2 THEN rt
    ELSE LET _old_checkpoint == rt.checkpoint
             a == IF ~rt.has_old_checkpoint
                  THEN [rt EXCEPT !.has_old_checkpoint = TRUE,
                                  !.checkpoint = _old_checkpoint + 1]
                  ELSE rt IN
         IF rt.tf_has_checkpoint
         THEN [a EXCEPT !.tf_checkpoint = _old_checkpoint + 1]
         ELSE a

\* ------------------------------------------------- universal post-load fixups
\* `assert tokenizer.eos_token is not None` fails
EosAssertFails(tokenizer) == tokenizer.eos_token = None

FixPadAlways(tokenizer) ==
    [tokenizer EXCEPT !.pad_token = tokenizer.eos_token]

\* `if tokenizer.pad_token is None: tokenizer.pad_token = tokenizer.eos_token`
FixPad(tokenizer) ==
    [tokenizer EXCEPT !.pad_token = IF tokenizer.pad_token = None
                                    THEN tokenizer.eos_token
                                    ELSE tokenizer.pad_token]

AttachModelPartial(model, max_model_len, model_type, model_dir) ==
    IF ~model.loaded THEN model
    ELSE [model EXCEPT !.max_model_len = max_model_len]

\* lines 3923-3931: the attributes attached to the returned pair
AttachModel(model, max_model_len, model_type, model_dir) ==
    IF ~model.loaded THEN model
    ELSE [model EXCEPT !.max_model_len = max_model_len, !.model_type = model_type,
                       !.model_dir = model_dir]

\* one tenth-unit scale: temperature 1.0
TempOne == 10

FixDoSampleInclusive(g) ==
    IF g.present /\ 0 <= g.temperature /\ g.temperature <= TempOne /\ ~g.do_sample
    THEN [g EXCEPT !.do_sample = TRUE]
    ELSE g

\* lines 3944-3948: the llama2 fix
FixDoSample(g) ==
    IF g.present /\ 0 < g.temperature /\ g.temperature < TempOne /\ ~g.do_sample
    THEN [g EXCEPT !.do_sample = TRUE]
    ELSE g

\* lines 3935-3949: generation_config.json is read when the model has no
\* generation config, then the sampling flag is fixed
FixGenerationConfig(model, generation_file) ==
    IF ~model.loaded THEN model
    ELSE LET g == IF generation_file.present /\ ~model.generation_config.present
                  THEN generation_file
                  ELSE model.generation_config IN
         [model EXCEPT !.generation_config = FixDoSample(g)]

AttachTokenizer(tokenizer, model_type, model_dir) ==
    [tokenizer EXCEPT !.model_type = model_type, !.model_dir = model_dir]

\* the facts of a checkpoint directory the pipeline reads: config.json's
\* torch_dtype string, the tokenizer's special tokens, get_max_model_len(config)
Ckpts ==
    [torch_dtype : {None, "float32", "float16", "bfloat16"},
     eos_token : {None, "</s>"},
     pad_token : {None, "<pad>"},
     max_model_len : {NoLen, {MaxLen}},
     generation_config : {NoGen},
     generation_file : {NoGen}]

\* require_version over an entry's requires: the requirements that cannot be
\* met by what is installed (a requirement on a package that is not installed)
Uninstalled(requires, rt) ==
    {r \in requires : r = "auto_gptq>=0.5" /\ ~rt.auto_gptq}

\* get_model_tokenizer lines 3890-3950, after safe_snapshot_download returned
Resolve(p, ckpts) ==
    /\ pc[p] = "resolve"
    /\ LET c == call[p]
           model_info == MODEL_MAPPING[c.model_type]
           model_dir == st[p].model_dir IN
       \E unmet \in {u \in SUBSET model_info.requires :
                         Uninstalled(model_info.requires, runtime[p]) \subseteq u},
          ckpt \in ckpts :
         LET checked == IF model_info.requires = {} THEN <<>> ELSE <<"require">>
             dt == DetermineDtype(model_info.torch_dtype, c.torch_dtype, ckpt.torch_dtype)
             read == IF model_info.torch_dtype = None /\ c.torch_dtype = None
                     THEN <<"fs:config">> ELSE <<>>
             q == QuantizationConfig(c.quantization_config, model_info.torch_dtype,
                                     c.torch_dtype, dt.torch_dtype)
             ext == CheckExt(model_info.get_function.kw, c.is_training, runtime[p])
             r == IF ext # None THEN LoaderRaised(ext)
                  ELSE InvokeLoader(model_info.get_function, ckpt, dt.torch_dtype,
                                    c.load_model, model_info.eos_token)
             rt1 == IF ext # None THEN runtime[p]
                    ELSE LoaderRuntime(model_info.get_function, c.load_model,
                                       c.is_training, runtime[p])
             rt2 == FixGradientCheckpointingWarning(rt1) IN
         IF unmet # {}
         THEN /\ pc' = [pc EXCEPT ![p] = "raised"]
              /\ ret' = [ret EXCEPT ![p] = Raised("RequireError")]
              /\ events' = [events EXCEPT ![p] = @ \o checked]
              /\ UNCHANGED runtime
         ELSE IF ~dt.ok
         THEN /\ pc' = [pc EXCEPT ![p] = "raised"]
              /\ ret' = [ret EXCEPT ![p] = Raised("DtypeAssertionError")]
              /\ events' = [events EXCEPT ![p] = @ \o checked]
              /\ UNCHANGED runtime
         ELSE IF r.raised
         THEN /\ pc' = [pc EXCEPT ![p] = "raised"]
              /\ ret' = [ret EXCEPT ![p] =
                           [Raised(r.error) EXCEPT !.torch_dtype = dt.torch_dtype,
                                                   !.ckpt = ckpt,
                                                   !.quantization_config = q]]
              /\ events' = [events EXCEPT ![p] = @ \o checked \o read \o <<"loader">>]
              /\ runtime' = [runtime EXCEPT ![p] = rt1]
         ELSE IF EosAssertFails(r.tokenizer)
         THEN /\ pc' = [pc EXCEPT ![p] = "raised"]
              /\ ret' = [ret EXCEPT ![p] =
                           [Raised("EosAssertionError") EXCEPT
                               !.torch_dtype = dt.torch_dtype, !.ckpt = ckpt,
                               !.quantization_config = q]]
              /\ events' = [events EXCEPT ![p] = @ \o checked \o read \o <<"loader">>]
              /\ runtime' = [runtime EXCEPT ![p] = rt2]
         ELSE /\ pc' = [pc EXCEPT ![p] = "done"]
              /\ ret' = [ret EXCEPT ![p] =
                           [status |-> "ok", error |-> None,
                            model |-> FixGenerationConfig(
                                         AttachModel(r.model, ckpt.max_model_len,
                                                     c.model_type, model_dir),
                                         ckpt.generation_file),
                            tokenizer |-> AttachTokenizer(FixPad(r.tokenizer),
                                                          c.model_type, model_dir),
                            torch_dtype |-> dt.torch_dtype, ckpt |-> ckpt,
                            model_dir |-> model_dir, quantization_config |-> q]]
              /\ events' = [events EXCEPT ![p] = @ \o checked \o read \o <<"loader">>]
              /\ runtime' = [runtime EXCEPT ![p] = rt2]
    /\ runtime'[p].ce_forward <= MaxWrap
    /\ UNCHANGED <<regVars, loopVars, mergeVars, loaderVars, prepVars, call, st, ddp_lock>>

\* the caller takes the result (or the exception); the process is free again
Return(p) ==
    /\ pc[p] \in {"done", "raised"}
    /\ args[p] = NoArgs
    /\ pc' = [pc EXCEPT ![p] = "idle"]
    /\ call' = [call EXCEPT ![p] = NoCall]
    /\ st' = [st EXCEPT ![p] = NoSt]
    /\ events' = [events EXCEPT ![p] = <<>>]
    /\ ret' = [ret EXCEPT ![p] = NoRet]
    /\ UNCHANGED <<regVars, loopVars, mergeVars, loaderVars, runtime, prepVars, ddp_lock>>

\* ------------------------------------------ prepare_model_template (infer.py)

\* lines 157-161: the location handed to get_model_tokenizer
PrepLocation(a) ==
    IF a.sft_type = "full" /\ a.ckpt_dir # None THEN a.ckpt_dir
    ELSE a.model_id_or_path

\* lines 165-171: the get_model_tokenizer call (load_model keeps its default)
GmtCall(a) ==
    [model_type |-> a.model_type, torch_dtype |-> a.torch_dtype, load_model |-> TRUE,
     is_training |-> FALSE,
     model_id_or_path |-> PrepLocation(a), revision |-> a.model_revision,
     quantization_config |-> NoQuant]

\* the number held by an optional length
Val(len) == CHOOSE n \in len : TRUE

ReconcileMaxModelLenStrict(model_len, args_len) ==
    IF model_len = NoLen
    THEN [raised |-> FALSE, max_model_len |-> args_len]
    ELSE IF args_len # NoLen
    THEN IF Val(args_len) < Val(model_len)
         THEN [raised |-> FALSE, max_model_len |-> args_len]
         ELSE [raised |-> TRUE, max_model_len |-> model_len]
    ELSE [raised |-> FALSE, max_model_len |-> model_len]

\* lines 188-197: model.max_model_len against args.max_model_len
ReconcileMaxModelLen(model_len, args_len) ==
    IF model_len = NoLen
    THEN [raised |-> FALSE, max_model_len |-> args_len]
    ELSE IF args_len # NoLen
    THEN IF Val(args_len) <= Val(model_len)
         THEN [raised |-> FALSE, max_model_len |-> args_len]
         ELSE [raised |-> TRUE, max_model_len |-> model_len]
    ELSE [raised |-> FALSE, max_model_len |-> model_len]

\* is_adapter(sft_type): the fine-tuning types that are adapters
AdapterTypes == {"lora", "longlora", "adalora", "ia3"}

is_adapter(sft_type) == sft_type \in AdapterTypes

AttachWheneverCkpt(sft_type, ckpt_dir) == ckpt_dir # None

\* line 199: the condition under which Swift.from_pretrained is called
ShouldAttach(sft_type, ckpt_dir) == is_adapter(sft_type) /\ ckpt_dir # None

\* lines 122-171: prepare_model_template is entered and calls get_model_tokenizer
PrepEnter(p, a) ==
    /\ args' = [args EXCEPT ![p] = a]
    /\ call' = [call EXCEPT ![p] = GmtCall(a)]
    /\ prep' = [prep EXCEPT ![p] = NoPrep]
    /\ \E use_hf \in BOOLEAN :
         LET r == SsdProlog(MODEL_MAPPING, GmtCall(a), use_hf) IN
         /\ events' = [events EXCEPT ![p] = r.events]
         /\ st' = [st EXCEPT ![p] = r.st]
         /\ IF r.raised
            THEN /\ pc' = [pc EXCEPT ![p] = "raised"]
                 /\ ret' = [ret EXCEPT ![p] = Raised("KeyError")]
            ELSE /\ pc' = [pc EXCEPT ![p] = "ssd_enter"]
                 /\ ret' = [ret EXCEPT ![p] = NoRet]
    /\ UNCHANGED <<regVars, loopVars, loaderVars, runtime, ddp_lock>>

\* prepare_model_template called on its own
PrepCall(p, a) ==
    /\ pc[p] = "idle"
    /\ args[p] = NoArgs
    /\ PrepEnter(p, a)
    /\ UNCHANGED mergeVars

\* lines 172-203: get_model_tokenizer returned or raised; generation config,
\* maximum length, adapter
PrepFinish(p) ==
    /\ pc[p] \in {"done", "raised"}
    /\ args[p] # NoArgs
    /\ IF pc[p] = "raised"
       THEN /\ prep' = [prep EXCEPT ![p] = [NoPrep EXCEPT !.status = "raised",
                                                          !.error = ret[p].error]]
            /\ pc' = [pc EXCEPT ![p] = "prep_raised"]
            /\ UNCHANGED events
       ELSE LET r == ReconcileMaxModelLen(ret[p].model.max_model_len,
                                          args[p].max_model_len)
                attach == ShouldAttach(args[p].sft_type, args[p].ckpt_dir) IN
            IF r.raised
            THEN /\ prep' = [prep EXCEPT ![p] = [NoPrep EXCEPT !.status = "raised",
                                                               !.error = "ValueError"]]
                 /\ pc' = [pc EXCEPT ![p] = "prep_raised"]
                 /\ events' = [events EXCEPT ![p] = Append(@, "generation_config")]
            ELSE /\ prep' = [prep EXCEPT ![p] =
                               [status |-> "ok", error |-> None,
                                max_model_len |-> r.max_model_len,
                                adapter |-> IF attach THEN args[p].ckpt_dir ELSE None]]
                 /\ pc' = [pc EXCEPT ![p] = "prep_done"]
                 /\ events' = [events EXCEPT ![p] =
                                 @ \o <<"generation_config", "max_model_len">>
                                   \o (IF attach THEN <<"adapter">> ELSE <<>>)
                                   \o <<"template">>]
    /\ UNCHANGED <<regVars, loopVars, mergeVars, loaderVars, runtime, call, st, ret, ddp_lock, args>>

\* the caller takes the pair (or the exception); the process is free again
PrepReturn(p) ==
    /\ pc[p] \in {"prep_done", "prep_raised"}
    /\ merge[p].status = "none"
    /\ pc' = [pc EXCEPT ![p] = "idle"]
    /\ call' = [call EXCEPT ![p] = NoCall]
    /\ st' = [st EXCEPT ![p] = NoSt]
    /\ events' = [events EXCEPT ![p] = <<>>]
    /\ ret' = [ret EXCEPT ![p] = NoRet]
    /\ args' = [args EXCEPT ![p] = NoArgs]
    /\ prep' = [prep EXCEPT ![p] = NoPrep]
    /\ UNCHANGED <<regVars, loopVars, mergeVars, loaderVars, runtime, ddp_lock>>

\* ------------------------------------------------------ merge_lora (infer.py)

\* lines 86-87: the catalog keys whose name contains 'int4', 'int8' or 'awq'
QuantizedNames == {"qwen1half-0_5b-chat-int4", "wizardlm2-7b-awq"}

MergeAssertsAnyType(a) ==
    /\ a.ckpt_dir # None
    /\ a.model_type \notin QuantizedNames

\* lines 84-87: the three assertions on the arguments
MergeAsserts(a) ==
    /\ a.ckpt_dir # None
    /\ a.sft_type = "lora"
    /\ a.model_type \notin QuantizedNames

\* lines 91-92: the merged directory sits next to the checkpoint directory
MergedLoraPath(ckpt_dir) == ckpt_dir \o "-merged"

\* lines 79-101: merge_lora asserts, looks for the merged directory and
\* either skips the saving or enters prepare_model_template
MergeBody(p, a, replace_if_exists, again) ==
    /\ UNCHANGED merged_dirs
    /\ IF ~MergeAsserts(a)
       THEN /\ merge' = [merge EXCEPT ![p] = [NoMerge EXCEPT !.status = "raised",
                                                             !.error = "AssertionError",
                                                             !.again = again]]
            /\ pc' = [pc EXCEPT ![p] = "merge_raised"]
            /\ UNCHANGED <<regVars, loopVars, loaderVars, runtime, prepVars, call, st, events, ret, ddp_lock>>
       ELSE LET path == MergedLoraPath(a.ckpt_dir)
                m == [status |-> "preparing", error |-> None, ckpt_dir |-> a.ckpt_dir,
                      merged_lora_path |-> path,
                      replace_if_exists |-> replace_if_exists,
                      existed |-> path \in merged_dirs, again |-> again] IN
            IF path \in merged_dirs /\ ~replace_if_exists
            THEN /\ merge' = [merge EXCEPT ![p] = [m EXCEPT !.status = "skipped"]]
                 /\ args' = [args EXCEPT ![p] = [a EXCEPT !.sft_type = "full",
                                                          !.ckpt_dir = path]]
                 /\ pc' = [pc EXCEPT ![p] = "merge_done"]
                 /\ UNCHANGED <<regVars, loopVars, loaderVars, runtime, prep, call, st, events, ret, ddp_lock>>
            ELSE /\ merge' = [merge EXCEPT ![p] = m]
                 /\ PrepEnter(p, a)

\* merge_lora is called with fresh arguments
MergeCall(p, a, replace_if_exists) ==
    /\ pc[p] = "idle"
    /\ args[p] = NoArgs
    /\ merge[p] = NoMerge
    /\ MergeBody(p, a, replace_if_exists, FALSE)

\* merge_lora returned and is called again with the same args object
MergeAgain(p, replace_if_exists) ==
    /\ pc[p] = "merge_done"
    /\ MergeBody(p, args[p], replace_if_exists, TRUE)

\* lines 102-112 with save_checkpoint lines 32-33: prepare_model_template
\* returned; the adapter is merged and model.save_pretrained starts filling
\* the merged directory
MergeSave(p) ==
    /\ pc[p] = "prep_done"
    /\ merge[p].status = "preparing"
    /\ merge' = [merge EXCEPT ![p].status = "saving"]
    /\ merged_dirs' = merged_dirs \cup {merge[p].merged_lora_path}
    /\ pc' = [pc EXCEPT ![p] = "merge_saving"]
    /\ events' = [events EXCEPT ![p] = @ \o <<"merge_and_unload", "save:begin">>]
    /\ UNCHANGED <<regVars, loopVars, loaderVars, runtime, prepVars, call, st, ret, ddp_lock>>

\* save_checkpoint lines 34-76 and merge_lora lines 113-119: the remaining
\* files are written and args is repointed at the merged directory
MergeFinish(p) ==
    /\ pc[p] = "merge_saving"
    /\ merge' = [merge EXCEPT ![p].status = "saved"]
    /\ args' = [args EXCEPT ![p].sft_type = "full",
                            ![p].ckpt_dir = merge[p].merged_lora_path]
    /\ pc' = [pc EXCEPT ![p] = "merge_done"]
    /\ events' = [events EXCEPT ![p] = Append(@, "save:end")]
    /\ UNCHANGED <<regVars, loopVars, loaderVars, runtime, prep, call, st, ret, ddp_lock, merged_dirs>>

\* line 100: prepare_model_template raised; merge_lora lets it through
MergeFail(p) ==
    /\ pc[p] = "prep_raised"
    /\ merge[p].status = "preparing"
    /\ merge' = [merge EXCEPT ![p].status = "raised", ![p].error = prep[p].error]
    /\ pc' = [pc EXCEPT ![p] = "merge_raised"]
    /\ UNCHANGED <<regVars, loopVars, loaderVars, runtime, prepVars, call, st, events, ret, ddp_lock,
                   merged_dirs>>

\* the caller takes the merged path (or the exception)
MergeReturn(p) ==
    /\ pc[p] \in {"merge_done", "merge_raised"}
    /\ pc' = [pc EXCEPT ![p] = "idle"]
    /\ call' = [call EXCEPT ![p] = NoCall]
    /\ st' = [st EXCEPT ![p] = NoSt]
    /\ events' = [events EXCEPT ![p] = <<>>]
    /\ ret' = [ret EXCEPT ![p] = NoRet]
    /\ args' = [args EXCEPT ![p] = NoArgs]
    /\ prep' = [prep EXCEPT ![p] = NoPrep]
    /\ merge' = [merge EXCEPT ![p] = NoMerge]
    /\ UNCHANGED <<regVars, loopVars, loaderVars, runtime, ddp_lock, merged_dirs>>

\* ---------------------------------------- llm_infer, eval_human (infer.py)

\* what the user types at the prompt
Inputs == {"QUIT", " Clear ", "  ", "Reset-System", "multi-line", "single-line"}

\* query.strip().lower()
StripLower(query) ==
    CASE query = "QUIT"         -> "quit"
      [] query = " Clear "      -> "clear"
      [] query = "  "           -> ""
      [] query = "Reset-System" -> "reset-system"
      [] OTHER                  -> query

\* query.strip()
Strip(query) ==
    CASE query = " Clear " -> "Clear"
      [] query = "  "      -> ""
      [] OTHER             -> query

\* the histories a generation can return: none, or the turns so far
Histories == {<<>>, <<"turn">>}

\* the settings the loop is run under: stop words are configured in the runs
\* that ask for media
Cfgs == {c \in [support_multi_round : BOOLEAN, stop_words : BOOLEAN,
                infer_media_type : {"none", "round"},
                infer_backend : {"pt", "vllm"}] :
            c.stop_words = (c.infer_media_type = "round")}

PlainCfg == [support_multi_round |-> TRUE, stop_words |-> FALSE,
             infer_media_type |-> "none", infer_backend |-> "pt"]

NoGeneration == [n |-> 0, history |-> <<>>, infer_kwargs |-> {}, entered |-> FALSE,
                 after_reset |-> FALSE, expected |-> <<>>]

\* lastInput also carries what the loop has been through since the last
\* generation: produced is the history the last generation returned (emptied
\* by `clear`), after_reset tells that a system prompt was read after
\* `reset-system`
NoInput == [query |-> None, produced |-> <<>>, after_reset |-> FALSE]

\* an optional flag: args.verbose is None, True or False
NoFlag == {}
Flag(b) == {b}

\* llm_infer is not inside its dataset branch
NoBatch == [pc |-> "off", verbose |-> NoFlag, stream |-> FALSE,
            infer_backend |-> "pt", size |-> 0, i |-> 0,
            given_verbose |-> NoFlag, given_stream |-> FALSE]

\* lines 265-281: the state before the first prompt when eval_human is set;
\* otherwise the loop is off
LoopInit(cfgs, eval_human) ==
    /\ cfg \in cfgs
    /\ loop_pc = IF eval_human THEN "read" ELSE "off"
    /\ batch = NoBatch
    /\ input_mode = "S"
    /\ history = <<>>
    /\ infer_kwargs = {}
    /\ system = None
    /\ read_system = FALSE
    /\ result = <<>>
    /\ lastGen = NoGeneration
    /\ lastInput = NoInput

DispatchModeFirst(query, rs, mode) ==
    LET q == StripLower(query) IN
    IF q \in {"exit", "quit"} THEN "exit"
    ELSE IF q = "clear" THEN "clear"
    ELSE IF Strip(query) = "" THEN "empty"
    ELSE IF q = "reset-system" THEN "reset-system"
    ELSE IF mode = "S" /\ q = "multi-line" THEN "multi-line"
    ELSE IF mode = "M" /\ q = "single-line" THEN "single-line"
    ELSE IF rs THEN "system"
    ELSE "generate"

\* lines 292-315: the branch one input takes
Dispatch(query, rs, mode) ==
    LET q == StripLower(query) IN
    IF q \in {"exit", "quit"} THEN "exit"
    ELSE IF q = "clear" THEN "clear"
    ELSE IF Strip(query) = "" THEN "empty"
    ELSE IF q = "reset-system" THEN "reset-system"
    ELSE IF rs THEN "system"
    ELSE IF mode = "S" /\ q = "multi-line" THEN "multi-line"
    ELSE IF mode = "M" /\ q = "single-line" THEN "single-line"
    ELSE "generate"

\* every iteration starts by reading one input (lines 283-291)
Reads(query, branch) ==
    /\ loop_pc = "read"
    /\ \A p \in Procs : pc[p] = "idle"
    /\ Dispatch(query, read_system, input_mode) = branch
    /\ UNCHANGED <<regVars, resVars, prepVars, runtime, mergeVars, loaderVars, cfg, batch>>

Seen(query, produced, after_reset) ==
    [query |-> query, produced |-> produced, after_reset |-> after_reset]

\* lines 292-293
LoopExit(query) ==
    /\ Reads(query, "exit")
    /\ loop_pc' = "exited"
    /\ lastInput' = Seen(query, lastInput.produced, lastInput.after_reset)
    /\ UNCHANGED <<input_mode, history, infer_kwargs, system, read_system, result,
                   lastGen>>

\* lines 294-297
LoopClear(query) ==
    /\ Reads(query, "clear")
    /\ history' = <<>>
    /\ infer_kwargs' = {}
    /\ lastInput' = Seen(query, <<>>, lastInput.after_reset)
    /\ UNCHANGED <<loop_pc, input_mode, system, read_system, result, lastGen>>

\* lines 298-299
LoopEmpty(query) ==
    /\ Reads(query, "empty")
    /\ lastInput' = Seen(query, lastInput.produced, lastInput.after_reset)
    /\ UNCHANGED <<loop_pc, input_mode, history, infer_kwargs, system, read_system,
                   result, lastGen>>

\* lines 300-302
LoopResetSystem(query) ==
    /\ Reads(query, "reset-system")
    /\ read_system' = TRUE
    /\ lastInput' = Seen(query, lastInput.produced, lastInput.after_reset)
    /\ UNCHANGED <<loop_pc, input_mode, history, infer_kwargs, system, result,
                   lastGen>>

\* lines 303-306
LoopReadSystem(query) ==
    /\ Reads(query, "system")
    /\ system' = query
    /\ read_system' = FALSE
    /\ lastInput' = Seen(query, lastInput.produced, TRUE)
    /\ UNCHANGED <<loop_pc, input_mode, history, infer_kwargs, result, lastGen>>

\* lines 307-315
LoopSwitchMode(query) ==
    /\ \/ Reads(query, "multi-line") /\ input_mode' = "M"
       \/ Reads(query, "single-line") /\ input_mode' = "S"
    /\ lastInput' = Seen(query, lastInput.produced, lastInput.after_reset)
    /\ UNCHANGED <<loop_pc, history, infer_kwargs, system, read_system, result,
                   lastGen>>

\* read_media_file lines 222-234: the keys of infer_kwargs afterwards; entered
\* tells whether the user typed a path when asked
ReadMediaFile(kwargs, infer_media_type, entered) ==
    IF infer_media_type = "none" THEN kwargs
    ELSE IF (infer_media_type = "round" \/ "images" \notin kwargs) /\ entered
    THEN kwargs \cup {"images"}
    ELSE kwargs

TurnKwargsKept(kwargs, c, entered) ==
    LET media == ReadMediaFile(kwargs, c.infer_media_type, entered) IN
    IF c.infer_backend # "vllm" /\ c.stop_words THEN media \cup {"stop_words"}
    ELSE media

\* lines 316-320 and 354-355: infer_kwargs as the turn leaves it
TurnKwargs(kwargs, c, entered) ==
    LET start == IF ~c.support_multi_round THEN {} ELSE kwargs
        media == ReadMediaFile(start, c.infer_media_type, entered) IN
    IF c.infer_backend # "vllm" /\ c.stop_words THEN media \cup {"stop_words"}
    ELSE media

\* lines 316-379: one generation; new_history is what the inference returns
LoopGenerate(query, entered, new_history) ==
    /\ Reads(query, "generate")
    /\ Len(result) < MaxTurns
    /\ LET h == IF ~cfg.support_multi_round THEN <<>> ELSE history
           kw == TurnKwargs(infer_kwargs, cfg, entered) IN
       /\ infer_kwargs' = kw
       /\ lastGen' = [n |-> lastGen.n + 1, history |-> h,
                      infer_kwargs |-> IF cfg.infer_backend = "vllm" THEN {} ELSE kw,
                      entered |-> entered /\ cfg.infer_media_type # "none",
                      after_reset |-> lastInput.after_reset,
                      expected |-> lastInput.produced]
       /\ result' = Append(result, [query |-> query, history |-> h])
       /\ history' = new_history
       /\ lastInput' = Seen(query, new_history, FALSE)
    /\ UNCHANGED <<loop_pc, input_mode, system, read_system>>

\* --------------------------------------- llm_infer, dataset branch (infer.py)

\* line 395: the dataset length from which verbose defaults to False
VerboseThreshold == 100

NormaliseKeepsStream(verbose, stream, infer_backend, size) ==
    LET v1 == IF verbose = NoFlag THEN size < VerboseThreshold
              ELSE CHOOSE b \in verbose : TRUE IN
    [verbose |-> IF infer_backend = "vllm" /\ ~stream THEN FALSE ELSE v1,
     stream  |-> stream]

\* lines 394-407: verbose and stream after the option normalisation
Normalise(verbose, stream, infer_backend, size) ==
    LET v1 == IF verbose = NoFlag THEN size < VerboseThreshold
              ELSE CHOOSE b \in verbose : TRUE
        s1 == IF ~v1 /\ stream THEN FALSE ELSE stream IN
    [verbose |-> IF infer_backend = "vllm" /\ ~s1 THEN FALSE ELSE v1,
     stream  |-> s1]

\* lines 380-407: the dataset branch is entered and the options normalised
BatchStart(verbose, stream, infer_backend, size) ==
    /\ loop_pc = "off"
    /\ batch.pc = "off"
    /\ \A p \in Procs : pc[p] = "idle"
    /\ LET n == Normalise(verbose, stream, infer_backend, size) IN
       batch' = [pc |-> "normalised", verbose |-> Flag(n.verbose),
                 stream |-> n.stream, infer_backend |-> infer_backend,
                 size |-> size, i |-> 0,
                 given_verbose |-> verbose, given_stream |-> stream]
    /\ UNCHANGED <<regVars, resVars, prepVars, runtime, mergeVars, loaderVars, cfg, loop_pc,
                   input_mode, history, infer_kwargs, system, read_system, result,
                   lastGen, lastInput>>

BatchFrame ==
    UNCHANGED <<regVars, resVars, prepVars, runtime, mergeVars, loaderVars, cfg, loop_pc,
                input_mode, history, infer_kwargs, system, read_system, result,
                lastGen, lastInput>>

\* lines 404-423: the whole dataset in one inference_vllm call
BatchVllm ==
    /\ batch.pc = "normalised"
    /\ batch.infer_backend = "vllm" /\ ~batch.stream
    /\ batch' = [batch EXCEPT !.pc = "returned", !.i = batch.size]
    /\ BatchFrame

\* lines 427-474: one sample; with the vllm backend line 441 asserts
\* args.stream is True
BatchSample ==
    /\ batch.pc = "normalised"
    /\ ~(batch.infer_backend = "vllm" /\ ~batch.stream)
    /\ batch.i < batch.size
    /\ IF batch.infer_backend = "vllm" /\ ~batch.stream
       THEN batch' = [batch EXCEPT !.pc = "assert_failed"]
       ELSE batch' = [batch EXCEPT !.i = batch.i + 1]
    /\ BatchFrame

\* lines 475-481: the samples are exhausted, llm_infer returns
BatchReturn ==
    /\ batch.pc = "normalised"
    /\ ~(batch.infer_backend = "vllm" /\ ~batch.stream)
    /\ batch.i = batch.size
    /\ batch' = [batch EXCEPT !.pc = "returned"]
    /\ BatchFrame

\* the caller has the result (or the AssertionError)
BatchEnd ==
    /\ batch.pc \in {"returned", "assert_failed"}
    /\ batch' = NoBatch
    /\ BatchFrame

\* ------------------------------------------------------- specifications
Init == RegInit /\ ResInit /\ PrepInit /\ MergeInit /\ RuntimeInit({FullEnv})
        /\ LoopInit({PlainCfg}, FALSE) /\ LoaderInit

\* --- registration alone
\* decorators stacked on one `def`: the next one is applied to what the
\* previous one returned
StackedFns == IF lastReg.op = "apply" THEN {lastReg.returned} ELSE {}

NextReg ==
    \/ \E a \in RegArgs : RegisterDirect(a)
    \/ \E a \in RegArgs : RegisterFactory(a)
    \/ \E c \in factories, f \in DecoratedFns \cup StackedFns : ApplyDecorator(c, f)

SpecReg == Init /\ [][NextReg]_vars

\* --- one process resolving, over a catalog that may be hot-patched
CallKeys == {"llama2-7b-chat", "deepseek-coder-1_3b-instruct", "internlm-7b-chat-8k",
             "qwen1half-0_5b-chat-int4", "baichuan-13b", "custom", "not-a-real-model"}

Calls ==
    [model_type : CallKeys,
     torch_dtype : {None} \cup Dtypes,
     load_model : BOOLEAN,
     is_training : {FALSE},
     model_id_or_path : {None, "/ckpt/local", "user/remote-repo"},
     revision : {None, "v1.0.0"},
     quantization_config : {NoQuant}]

HotPatchArgs ==
    {RegArg("custom", Plain("internlm_chat"), {}, TRUE, None, "<|im_end|>"),
     RegArg("custom", Plain("internlm2"), {"is_awq"}, TRUE, BFloat16, "</s>")}

Next ==
    \/ \E a \in HotPatchArgs : RegisterDirect(a)
    \/ \E c \in Calls : Call(1, c)
    \/ DdpEnter(1)
    \/ SsdBegin(1)
    \/ SsdFinish(1)
    \/ DdpExit(1)
    \/ Resolve(1, Ckpts)
    \/ Return(1)

Spec == Init /\ [][Next]_vars

\* --- cooperating processes resolving the same keys at the same time
ConcCalls ==
    [model_type : {"llama2-7b-chat"},
     torch_dtype : {None},
     load_model : {TRUE},
     is_training : {FALSE},
     model_id_or_path : {None, "/ckpt/local"},
     revision : {None},
     quantization_config : {NoQuant}]

ConcCkpts ==
    {[torch_dtype |-> "float32", eos_token |-> "</s>", pad_token |-> None,
      max_model_len |-> NoLen,
      generation_config |-> NoGen, generation_file |-> NoGen]}

NextConc ==
    \E p \in Procs :
        \/ \E c \in ConcCalls : Call(p, c)
        \/ DdpEnter(p)
        \/ SsdBegin(p)
        \/ SsdFinish(p)
        \/ DdpExit(p)
        \/ Resolve(p, ConcCkpts)
        \/ Return(p)

SpecConc == Init /\ [][NextConc]_vars

\* --- one interpreter resolving again and again, over what may be installed
RuntimeCalls ==
    [model_type : {"chatglm2-6b", "codegeex2-6b", "wizardlm2-7b-awq",
                   "qwen1half-0_5b-chat-int4"},
     torch_dtype : {None},
     load_model : BOOLEAN,
     is_training : BOOLEAN,
     model_id_or_path : {"/ckpt/local"},
     revision : {None},
     quantization_config : {NoQuant}]

RuntimeCkpts ==
    {[torch_dtype |-> "float16", eos_token |-> "</s>", pad_token |-> None,
      max_model_len |-> NoLen,
      generation_config |-> NoGen, generation_file |-> NoGen]}

InitRuntime == RegInit /\ ResInit /\ PrepInit /\ MergeInit /\ RuntimeInit(Envs)
               /\ LoopInit({PlainCfg}, FALSE) /\ LoaderInit

NextRuntime ==
    \/ \E c \in RuntimeCalls : Call(1, c)
    \/ DdpEnter(1)
    \/ SsdBegin(1)
    \/ DdpExit(1)
    \/ Resolve(1, RuntimeCkpts)
    \/ Return(1)

SpecRuntime == InitRuntime /\ [][NextRuntime]_vars

\* --- one process materializing checkpoints of entries with and without a
\* recorded revision
DownloadCalls ==
    [model_type : {"xverse-13b-256k", "llama2-7b-chat"},
     torch_dtype : {None},
     load_model : {TRUE},
     is_training : {FALSE},
     model_id_or_path : {None, "/ckpt/local", "user/remote-repo"},
     revision : {None, "v1.0.1"},
     quantization_config : {NoQuant}]

DownloadCkpts ==
    {[torch_dtype |-> "bfloat16", eos_token |-> "</s>", pad_token |-> "<pad>",
      max_model_len |-> NoLen,
      generation_config |-> NoGen, generation_file |-> NoGen]}

NextDownload ==
    \/ \E c \in DownloadCalls : Call(1, c)
    \/ DdpEnter(1)
    \/ SsdBegin(1)
    \/ SsdFinish(1)
    \/ DdpExit(1)
    \/ Resolve(1, DownloadCkpts)
    \/ Return(1)

SpecDownload == Init /\ [][NextDownload]_vars

\* --- one process preparing a model for inference
PrepArgs ==
    [model_type : {"llama2-7b-chat", "not-a-real-model"},
     torch_dtype : {None},
     sft_type : {"full", "lora"},
     ckpt_dir : {None, "/ckpt/local"},
     model_id_or_path : {None},
     model_revision : {None},
     max_model_len : {NoLen} \cup {{n} : n \in 1 .. MaxLen}]

PrepCkpts ==
    [torch_dtype : {"float16"},
     eos_token : {None, "</s>"},
     pad_token : {None},
     max_model_len : {NoLen} \cup {{n} : n \in 1 .. MaxLen},
     generation_config : {NoGen},
     generation_file : {NoGen}]

NextPrep ==
    \/ \E a \in PrepArgs : PrepCall(1, a)
    \/ DdpEnter(1)
    \/ SsdBegin(1)
    \/ SsdFinish(1)
    \/ DdpExit(1)
    \/ Resolve(1, PrepCkpts)
    \/ PrepFinish(1)
    \/ PrepReturn(1)

SpecPrep == Init /\ [][NextPrep]_vars

\* --- processes merging and loading one checkpoint directory
MergeArgs ==
    [model_type : {"llama2-7b-chat", "qwen1half-0_5b-chat-int4"},
     torch_dtype : {None},
     sft_type : {"lora"},
     ckpt_dir : {"/ckpt/local"},
     model_id_or_path : {None},
     model_revision : {None},
     max_model_len : {NoLen, {MaxLen}}]

LoadArgs == {a \in MergeArgs : a.model_type = "llama2-7b-chat"}

MergeCkpts ==
    {[torch_dtype |-> "float16", eos_token |-> "</s>", pad_token |-> None,
      max_model_len |-> {1},
      generation_config |-> NoGen, generation_file |-> NoGen]}

NextMerge ==
    \E p \in Procs :
        \/ \E a \in MergeArgs, replace_if_exists \in BOOLEAN :
              MergeCall(p, a, replace_if_exists)
        \/ \E a \in LoadArgs : PrepCall(p, a)
        \/ DdpEnter(p)
        \/ SsdBegin(p)
        \/ SsdFinish(p)
        \/ DdpExit(p)
        \/ Resolve(p, MergeCkpts)
        \/ PrepFinish(p)
        \/ PrepReturn(p)
        \/ MergeSave(p)
        \/ MergeFinish(p)
        \/ MergeFail(p)
        \/ MergeReturn(p)

SpecMerge == Init /\ [][NextMerge]_vars

\* --- one process merging, again and again, also on the args it already used
NextMergeOne ==
    \/ \E a \in MergeArgs, replace_if_exists \in BOOLEAN :
          MergeCall(1, a, replace_if_exists)
    \/ DdpEnter(1)
    \/ SsdBegin(1)
    \/ SsdFinish(1)
    \/ DdpExit(1)
    \/ Resolve(1, MergeCkpts)
    \/ PrepFinish(1)
    \/ MergeSave(1)
    \/ MergeFinish(1)
    \/ MergeFail(1)
    \/ \E replace_if_exists \in BOOLEAN : MergeAgain(1, replace_if_exists)
    \/ MergeReturn(1)

SpecMergeOne == Init /\ [][NextMergeOne]_vars

\* ------------------------------------------------------------- helpers
Has(seq, e) == \E i \in 1 .. Len(seq) : seq[i] = e

Downloaded(p) == Has(events[p], "net:hf") \/ Has(events[p], "net:ms")

\* the catalog entry the running call of p resolves (no registration runs
\* while a call is in flight)
InfoOf(p) == MODEL_MAPPING[call[p].model_type]

Known(p) == pc[p] # "idle" /\ call[p].model_type \in DOMAIN MODEL_MAPPING

\* ---------------------------------------------------------------- claims

\* C1: register_model for a key already in MODEL_MAPPING with exists_ok false
\* raises and leaves the catalog unchanged; otherwise it succeeds, and a lookup
\* of a key always returns the loader of the last completed registration of
\* that key (last-write-wins).
C1_LastWriteWins ==
    \A k \in DOMAIN MODEL_MAPPING : MODEL_MAPPING[k].get_function = lastWrite[k]

C1_DuplicateRejected ==
    (lastReg'.tick # lastReg.tick /\ lastReg'.op \in {"direct", "factory"}) =>
        IF lastReg'.key \in DOMAIN MODEL_MAPPING /\ ~lastReg'.exists_ok
        THEN lastReg'.raised /\ MODEL_MAPPING' = MODEL_MAPPING
        ELSE /\ ~lastReg'.raised
             /\ lastReg'.op = "direct" =>
                  /\ lastReg'.key \in DOMAIN MODEL_MAPPING'
                  /\ lastWrite'[lastReg'.key].fn = lastReg'.loader.fn

C1_RegisterModel == [] C1_LastWriteWins /\ [][C1_DuplicateRejected]_vars

C1_Witness ==
    /\ lastReg.op = "direct" /\ lastReg.existed /\ lastReg.exists_ok /\ ~lastReg.raised
    /\ lastReg.key = "llama2-7b-chat"
    /\ MODEL_MAPPING["llama2-7b-chat"].get_function =
          [fn |-> "internlm_chat", kw |-> {"gptq_bits"}]

\* C2: the entry stored under an existing key is never replaced unless the
\* replacing registration passed the override flag (exists_ok).
C2_NoReplaceWithoutOverride ==
    [][\A k \in DOMAIN MODEL_MAPPING :
          MODEL_MAPPING'[k] # MODEL_MAPPING[k] =>
              (lastReg'.key = k /\ lastReg'.exists_ok)]_vars

\* C3: resolving a key that is not in the catalog raises before any
\* environment read, network access or file-system access.
C3_UnknownKeyRaisesFirst ==
    \A p \in Procs :
        (pc[p] # "idle" /\ call[p].model_type \notin DOMAIN MODEL_MAPPING) =>
            (pc[p] = "raised" /\ ret[p].error = "KeyError" /\ events[p] = <<>>)

C3_Witness ==
    /\ pc[1] = "raised"
    /\ call[1].model_type = "not-a-real-model"
    /\ ret[1].error = "KeyError"

\* C4: if a requirement of the catalog entry is unmet, resolution fails
\* without the checkpoint provider having been called.
C4_RequiresBeforeDownload ==
    \A p \in Procs : ret[p].error = "RequireError" => ~Downloaded(p)

\* C5: no two processes are inside the materialization scope (so no two
\* download) at the same time, and a process has left the scope before its
\* loader is invoked.
C5_MaterializationExclusive ==
    /\ Cardinality({p \in Procs : pc[p] \in {"ssd_in", "ssd_downloading", "ssd_exit"}}) <= 1
    /\ \A p \in Procs :
          pc[p] \in {"resolve", "done"} =>
              (p \notin ddp_lock /\ Has(events[p], "ddp:exit")
               /\ (Has(events[p], "loader") =>
                     events[p][Len(events[p])] = "loader"))

C5_Witness ==
    \E p, q \in Procs :
        /\ p # q
        /\ pc[p] = "done" /\ Downloaded(p) /\ Has(events[p], "loader")
        /\ pc[q] = "ssd_downloading"

\* C6: for an entry with a declared dtype, a different explicit dtype always
\* fails and the loader is never invoked; no explicit dtype yields the
\* declared dtype.
C6_DeclaredDtype ==
    \A p \in Procs :
        (Known(p) /\ InfoOf(p).torch_dtype # None) =>
            /\ (call[p].torch_dtype # None /\ call[p].torch_dtype # InfoOf(p).torch_dtype)
                 => (pc[p] # "done" /\ ~Has(events[p], "loader"))
            /\ (call[p].torch_dtype = None /\ Has(events[p], "loader"))
                 => ret[p].torch_dtype = InfoOf(p).torch_dtype

C6_Witness ==
    /\ pc[1] = "raised" /\ ret[1].error = "DtypeAssertionError"
    /\ call[1].model_type = "qwen1half-0_5b-chat-int4"
    /\ call[1].torch_dtype = BFloat16
    /\ ~Has(events[1], "loader")

\* C7: for an entry without a declared dtype, a caller dtype reaches the loader
\* unchanged (float32 included); with none, the loader gets the checkpoint's
\* declared dtype, float32 replaced by float16.
C7_ResolvedDtype ==
    \A p \in Procs :
        (Known(p) /\ InfoOf(p).torch_dtype = None /\ Has(events[p], "loader")) =>
            ret[p].torch_dtype =
                IF call[p].torch_dtype # None THEN call[p].torch_dtype
                ELSE CASE ret[p].ckpt.torch_dtype = "float32" -> Float16
                       [] ret[p].ckpt.torch_dtype = "float16" -> Float16
                       [] ret[p].ckpt.torch_dtype = "bfloat16" -> BFloat16
                       [] OTHER -> None

C7_Witness ==
    /\ pc[1] = "done" /\ call[1].model_type = "llama2-7b-chat"
    /\ call[1].torch_dtype = None
    /\ ret[1].ckpt.torch_dtype = "float32"
    /\ ret[1].torch_dtype = Float16

\* C8: with a model-side maximum length L and a caller maximum length M,
\* preparation fails if M > L; succeeds with M if M <= L; keeps L if the caller
\* gives none; takes the caller's value if the model has no limit.
C8_MaxModelLen ==
    \A p \in Procs :
        (pc[p] \in {"prep_done", "prep_raised"} /\ ret[p].status = "ok") =>
            LET L == ret[p].model.max_model_len
                M == args[p].max_model_len IN
            IF L = NoLen
            THEN pc[p] = "prep_done" /\ prep[p].max_model_len = M
            ELSE IF M = NoLen
            THEN pc[p] = "prep_done" /\ prep[p].max_model_len = L
            ELSE IF \E m \in M, l \in L : m > l
            THEN pc[p] = "prep_raised" /\ prep[p].error = "ValueError"
            ELSE pc[p] = "prep_done" /\ prep[p].max_model_len = M

C8_Witness ==
    /\ pc[1] = "prep_raised" /\ prep[1].error = "ValueError"
    /\ ret[1].status = "ok"
    /\ ret[1].model.max_model_len = {1}
    /\ args[1].max_model_len = {2}

\* C9: if the catalog entry declares an end-of-sequence override, then after a
\* successful resolution the tokenizer's end-of-sequence token is that override.
C9_EosOverrideForced ==
    \A p \in Procs :
        (pc[p] = "done" /\ InfoOf(p).eos_token # None) =>
            ret[p].tokenizer.eos_token = InfoOf(p).eos_token

\* C10: a returned tokenizer has an end-of-sequence and a padding token; a
\* missing padding token became the end-of-sequence token, an existing one is
\* unchanged; a tokenizer without end-of-sequence token makes resolution fail.
C10_EosPadReconciled ==
    \A p \in Procs :
        pc[p] = "done" =>
            /\ ret[p].tokenizer.eos_token # None
            /\ ret[p].tokenizer.pad_token # None
            /\ ret[p].tokenizer.pad_token =
                  IF ret[p].ckpt.pad_token = None THEN ret[p].tokenizer.eos_token
                  ELSE ret[p].ckpt.pad_token

C10_Witness ==
    /\ pc[1] = "done"
    /\ ret[1].ckpt.pad_token = None /\ ret[1].ckpt.eos_token = "</s>"
    /\ ret[1].tokenizer.pad_token = "</s>"

\* C11: for every registered key, a resolution with load_model false whose
\* loader is invoked on a checkpoint that has an end-of-sequence token succeeds:
\* it returns no model and a tokenizer with end-of-sequence and padding tokens.
C11_TokenizerOnly ==
    \A p \in Procs :
        (Known(p) /\ ~call[p].load_model /\ Has(events[p], "loader")
           /\ ret[p].ckpt.eos_token # None) =>
            /\ pc[p] = "done"
            /\ ~ret[p].model.loaded
            /\ ret[p].tokenizer.eos_token # None
            /\ ret[p].tokenizer.pad_token # None

\* C12: however often loaders sharing a family patch are invoked in one
\* process, each patched shared target stays wrapped at most once around its
\* original (a second application of the patch is a no-op).
C12_FamilyPatchOnce ==
    \A p \in Procs : runtime[p].ce_forward <= 1 /\ runtime[p].ql_forward <= 1

\* C13: after any number of resolutions in one process, torch's checkpoint and
\* transformers.modeling_utils.checkpoint each reach the original checkpoint
\* function through at most one wrapper.
C13_CheckpointShimOnce ==
    \A p \in Procs : runtime[p].checkpoint <= 1 /\ runtime[p].tf_checkpoint <= 1

\* C14: when the loader of a key bound with gptq_bits or is_awq is invoked to
\* load a model and the runtime extension of that family is not installed,
\* resolution fails with the import error and no model is constructed.
C14_QuantExtFailFast ==
    \A p \in Procs :
        (Known(p) /\ Has(events[p], "loader") /\ call[p].load_model
           /\ (\/ ("is_awq" \in InfoOf(p).get_function.kw /\ ~runtime[p].awq_ext)
               \/ ("gptq_bits" \in InfoOf(p).get_function.kw /\ ~runtime[p].auto_gptq))) =>
            /\ pc[p] = "raised"
            /\ ret[p].error = "ImportError"
            /\ ~ret[p].model.loaded

\* C15: a call of get_model_tokenizer that returns hands back a tokenizer that
\* carries model_type and model_dir and, if a model was loaded, a model that
\* carries max_model_len, model_type and model_dir; a call that raises hands
\* back nothing.
C15_AllOrNothing ==
    \A p \in Procs :
        /\ pc[p] = "done" =>
             /\ ret[p].status = "ok"
             /\ ret[p].model_dir # NoDir
             /\ ret[p].tokenizer.model_type = call[p].model_type
             /\ ret[p].tokenizer.model_dir = ret[p].model_dir
             /\ ret[p].model.loaded = call[p].load_model
             /\ ret[p].model.loaded =>
                  /\ ret[p].model.model_type = call[p].model_type
                  /\ ret[p].model.model_dir = ret[p].model_dir
                  /\ ret[p].model.max_model_len = ret[p].ckpt.max_model_len
        /\ pc[p] = "raised" =>
             /\ ret[p].status = "raised"
             /\ ret[p].model = NoModel
             /\ ret[p].tokenizer = NoTokenizer

C15_Witness ==
    /\ pc[1] = "done"
    /\ ret[1].model.loaded
    /\ ret[1].model.model_type = "llama2-7b-chat"
    /\ ret[1].model.max_model_len = {MaxLen}
    /\ ret[1].tokenizer.model_type = "llama2-7b-chat"
    /\ ret[1].tokenizer.model_dir = CacheDir("ms", "modelscope/Llama-2-7b-chat-ms")

\* how often e occurs in seq
Count(seq, e) == Cardinality({i \in 1 .. Len(seq) : seq[i] = e})

\* C16: once safe_snapshot_download has chosen between path and provider: an
\* explicit location that is an existing local path is the checkpoint directory
\* and no provider is called; otherwise exactly one provider is called exactly
\* once, the HuggingFace one iff USE_HF is set.
C16_ProviderSelection ==
    \A p \in Procs :
        (Known(p) /\ pc[p] \notin {"ssd_enter", "ssd_in"}) =>
            LET explicit == call[p].model_id_or_path
                nHf == Count(events[p], "net:hf")
                nMs == Count(events[p], "net:ms") IN
            IF explicit # None /\ PathExists(explicit)
            THEN /\ nHf = 0 /\ nMs = 0
                 /\ pc[p] \in {"ssd_exit", "resolve", "done"} =>
                      st[p].model_dir = LocalDir(explicit)
            ELSE IF st[p].use_hf THEN nHf = 1 /\ nMs = 0
                 ELSE nHf = 0 /\ nMs = 1

\* C17 (as stated): when a provider was called, it was given the caller's
\* revision if there is one, else the revision recorded in the catalog entry,
\* whichever provider it is.
C17_RevisionFromCatalog ==
    \A p \in Procs :
        (Known(p) /\ Downloaded(p)) =>
            st[p].revision = IF call[p].revision # None THEN call[p].revision
                             ELSE InfoOf(p).revision

\* C17 (amended): when a provider was called, it was given the caller's
\* revision if there is one; else ModelScope gets the revision recorded in the
\* catalog entry and HuggingFace gets 'main'.
C17_RevisionPerProvider ==
    \A p \in Procs :
        (Known(p) /\ Downloaded(p)) =>
            st[p].revision = IF call[p].revision # None THEN call[p].revision
                             ELSE IF st[p].use_hf THEN "main"
                             ELSE InfoOf(p).revision

C17_Witness ==
    /\ Downloaded(1)
    /\ call[1].model_type = "xverse-13b-256k"
    /\ call[1].revision = None
    /\ ~st[1].use_hf
    /\ st[1].revision = "v1.0.0"

\* C18: applying the decorator that register_model returned inserts the entry
\* and returns the procedure it was given, unchanged; the entry's loader is
\* that procedure bound with the function_kwargs of this registration only.
C18_DecoratorApplied ==
    \A c \in factories :
        (c \notin factories' /\ lastReg'.op = "apply") =>
            /\ lastReg'.returned = lastReg'.loader
            /\ lastReg'.loader \in DecoratedFns
            /\ c.model_type \in DOMAIN MODEL_MAPPING'
            /\ MODEL_MAPPING'[c.model_type].get_function =
                  [fn |-> lastReg'.loader.fn, kw |-> c.function_kwargs]

C18_DecoratorReturnsOriginal == [][C18_DecoratorApplied]_vars

C18_Witness ==
    /\ lastReg.op = "apply" /\ lastReg.returned = Plain("from_repo")
    /\ "custom" \in DOMAIN MODEL_MAPPING
    /\ MODEL_MAPPING["custom"].get_function = [fn |-> "from_repo", kw |-> {"gptq_bits"}]
    /\ MODEL_MAPPING["llama2-7b-chat"].get_function = Plain("from_repo")

\* position of the first occurrence of e in seq (0 when absent)
First(seq, e) ==
    IF Has(seq, e) THEN CHOOSE i \in 1 .. Len(seq) :
                            seq[i] = e /\ \A j \in 1 .. (i - 1) : seq[j] # e
    ELSE 0

\* C19: prepare_model_template attaches the adapter only after the base model
\* is fully resolved (loader run, get_model_tokenizer returned normally,
\* generation config set, maximum length reconciled) and only for an adapter
\* fine-tuning type with a checkpoint directory; when an earlier step fails
\* the adapter runtime is never called.
C19_AdapterAfterBase ==
    \A p \in Procs :
        /\ Has(events[p], "adapter") =>
              /\ is_adapter(args[p].sft_type) /\ args[p].ckpt_dir # None
              /\ ret[p].status = "ok" /\ ret[p].model.loaded
              /\ prep[p].status = "ok" /\ prep[p].adapter = args[p].ckpt_dir
              /\ 0 < First(events[p], "loader")
              /\ First(events[p], "loader") < First(events[p], "generation_config")
              /\ First(events[p], "generation_config") < First(events[p], "max_model_len")
              /\ First(events[p], "max_model_len") < First(events[p], "adapter")
        /\ (prep[p].status = "raised" \/ ret[p].status = "raised") =>
              (~Has(events[p], "adapter") /\ prep[p].adapter = None)
        /\ prep[p].adapter # None => Has(events[p], "adapter")

C19_Witness ==
    /\ pc[1] = "prep_done" /\ args[1].sft_type = "lora"
    /\ prep[1].adapter = "/ckpt/local"
    /\ Has(events[1], "adapter")
    /\ args[1].max_model_len = {1} /\ ret[1].model.max_model_len = {2}

\* process q is inside prepare_model_template (not called by a merge) with
\* checkpoint directory d
LoadingFrom(q, d) ==
    /\ merge[q].status = "none"
    /\ args[q] # NoArgs /\ args[q].ckpt_dir = d
    /\ pc[q] \notin {"idle", "prep_done", "prep_raised"}

\* process q is inside merge_lora for checkpoint directory d
MergingInto(q, d) ==
    /\ merge[q].status \in {"preparing", "saving"}
    /\ merge[q].ckpt_dir = d

\* C20: while a merge writes the merged directory of a checkpoint directory,
\* no other process is loading from or merging into that checkpoint directory.
C20_MergeExclusive ==
    \A p \in Procs, q \in Procs :
        (p # q /\ merge[p].status = "saving") =>
            ~(LoadingFrom(q, merge[p].ckpt_dir) \/ MergingInto(q, merge[p].ckpt_dir))

\* --- one process resolving checkpoints with and without generation configs
Temps == {-5, 0, 5, TempOne, 15}

GenConfigs == [present : {TRUE}, temperature : Temps, do_sample : BOOLEAN]

GenCalls ==
    [model_type : {"llama2-7b-chat"},
     torch_dtype : {None},
     load_model : BOOLEAN,
     is_training : {FALSE},
     model_id_or_path : {"/ckpt/local"},
     revision : {None},
     quantization_config : {NoQuant}]

GenCkpts ==
    [torch_dtype : {"float16"},
     eos_token : {"</s>"},
     pad_token : {None},
     max_model_len : {NoLen},
     generation_config : {NoGen} \cup GenConfigs,
     generation_file : {NoGen} \cup GenConfigs]

NextGen ==
    \/ \E c \in GenCalls : Call(1, c)
    \/ DdpEnter(1)
    \/ SsdBegin(1)
    \/ DdpExit(1)
    \/ Resolve(1, GenCkpts)
    \/ Return(1)

SpecGen == Init /\ [][NextGen]_vars

\* the generation config of the loaded model before the sampling fix: its
\* own, or the one of generation_config.json when it has none
GenBefore(p) ==
    IF ret[p].ckpt.generation_config.present THEN ret[p].ckpt.generation_config
    ELSE ret[p].ckpt.generation_file

RepeatCalls ==
    [model_type : {"llama2-7b-chat"},
     torch_dtype : {None},
     load_model : BOOLEAN,
     is_training : {FALSE},
     model_id_or_path : {None, "/ckpt/local"},
     revision : {None},
     quantization_config : {NoQuant}]

RepeatCkpts ==
    [torch_dtype : {"float16"},
     eos_token : {"</s>", "<eos>"},
     pad_token : {None},
     max_model_len : {NoLen},
     generation_config : {NoGen},
     generation_file : {NoGen}]

NextRepeat ==
    \/ \E a \in HotPatchArgs : RegisterDirect(a)
    \/ \E c \in RepeatCalls : Call(1, c)
    \/ DdpEnter(1)
    \/ SsdBegin(1)
    \/ SsdFinish(1)
    \/ DdpExit(1)
    \/ Resolve(1, RepeatCkpts)
    \/ Return(1)

SpecRepeat == Init /\ [][NextRepeat]_vars

\* a step of get_model_tokenizer leaves the catalog as it was
C22_CatalogUntouched ==
    pc' # pc => (MODEL_MAPPING' = MODEL_MAPPING /\ factories' = factories)

\* a returned result was produced by this call: materialization ran, the
\* loader was invoked, and the tokenizer is the one of the checkpoint read now
C22_NothingCached ==
    \A p \in Procs :
        pc[p] = "done" =>
            /\ Has(events[p], "ddp:enter") /\ Has(events[p], "ddp:exit")
            /\ (call[p].model_id_or_path = None => Downloaded(p))
            /\ Has(events[p], "loader")
            /\ ret[p].tokenizer.eos_token = ret[p].ckpt.eos_token
            /\ ret[p].model.loaded = call[p].load_model

\* C22: resolution never changes MODEL_MAPPING and never caches: every
\* resolution of a key runs materialization and invokes the bound loader.
C22_NoMutationNoCache == []C22_NothingCached /\ [][C22_CatalogUntouched]_vars

\* a later resolution of the same key (the checkpoint shim has been through
\* an earlier call) downloads and loads again and sees the changed checkpoint
C22_Witness ==
    /\ pc[1] = "done" /\ runtime[1].tf_checkpoint = 2
    /\ Downloaded(1) /\ Has(events[1], "loader")
    /\ ret[1].tokenizer.eos_token = "<eos>"
    /\ "custom" \in DOMAIN MODEL_MAPPING

\* --- one process resolving with quantization settings in model_kwargs
QuantConfigs ==
    {NoQuant} \cup [kind : {"bnb"}, bnb_4bit_compute_dtype : {None} \cup Dtypes]

QuantCalls ==
    [model_type : {"llama2-7b-chat", "deepseek-coder-1_3b-instruct",
                   "qwen1half-0_5b-chat-int4"},
     torch_dtype : {None} \cup Dtypes,
     load_model : {TRUE},
     is_training : {FALSE},
     model_id_or_path : {"/ckpt/local"},
     revision : {None},
     quantization_config : QuantConfigs]

QuantCkpts ==
    [torch_dtype : {"float32", "bfloat16"},
     eos_token : {"</s>"},
     pad_token : {None},
     max_model_len : {NoLen},
     generation_config : {NoGen},
     generation_file : {NoGen}]

NextQuant ==
    \/ \E c \in QuantCalls : Call(1, c)
    \/ DdpEnter(1)
    \/ SsdBegin(1)
    \/ DdpExit(1)
    \/ Resolve(1, QuantCkpts)
    \/ Return(1)

SpecQuant == Init /\ [][NextQuant]_vars

\* C23: the quantization_config of the load options the loader receives is
\* the one the caller passed, unmodified, for every requested and declared
\* dtype.
C23_QuantizationForwarded ==
    \A p \in Procs :
        Has(events[p], "loader") =>
            ret[p].quantization_config = call[p].quantization_config

\* --- the interactive loop of llm_infer
InitLoop == RegInit /\ ResInit /\ PrepInit /\ MergeInit /\ RuntimeInit({FullEnv})
            /\ LoopInit(Cfgs, TRUE) /\ LoaderInit

NextLoop ==
    \E query \in Inputs :
        \/ LoopExit(query)
        \/ LoopClear(query)
        \/ LoopEmpty(query)
        \/ LoopResetSystem(query)
        \/ LoopReadSystem(query)
        \/ LoopSwitchMode(query)
        \/ \E entered \in BOOLEAN, new_history \in Histories :
              LoopGenerate(query, entered, new_history)

SpecLoop == InitLoop /\ [][NextLoop]_vars

\* C24: the first generation after `reset-system` and the system prompt that
\* follows it is invoked with an empty history.
C24_ResetSystemClearsHistory ==
    (lastGen.n > 0 /\ lastGen.after_reset) => lastGen.history = <<>>

\* the inputs that leave a pending read of the system prompt pending
KeepsPending(query) ==
    \/ StripLower(query) \in {"exit", "quit", "clear", "reset-system"}
    \/ Strip(query) = ""

C25_Step ==
    (read_system /\ loopVars' # loopVars) =>
        /\ lastGen' = lastGen /\ result' = result
        /\ IF KeepsPending(lastInput'.query)
           THEN read_system'
           ELSE /\ system' = lastInput'.query /\ ~read_system'
                /\ history' = history /\ infer_kwargs' = infer_kwargs
                /\ input_mode' = input_mode /\ loop_pc' = loop_pc

\* C25: once `reset-system` was entered, the next input other than exit/quit,
\* clear, empty and reset-system becomes the system prompt, with no
\* generation, no history change and no result record, even when it is the
\* text multi-line or single-line; clear, empty and reset-system inputs in
\* between leave the read pending.
C25_SystemPromptRead == [][C25_Step]_vars

C25_Witness ==
    /\ system = "multi-line" /\ input_mode = "S" /\ ~read_system
    /\ lastInput.query = "multi-line" /\ lastInput.after_reset
    /\ lastGen.n = 1 /\ history = <<"turn">>

\* the history and the record of the last generation, as the first two
\* parts of C26 state them
C26_Chain ==
    /\ lastGen.n = Len(result)
    /\ lastGen.n > 0 =>
          /\ lastGen.history = IF cfg.support_multi_round THEN lastGen.expected
                               ELSE <<>>
          /\ result[lastGen.n].history = lastGen.history

\* C26 as stated: chained histories, results holding the history before the
\* turn, and for a single-round template an empty history and empty extra
\* arguments at every generation.
C26_HistoryChain ==
    /\ C26_Chain
    /\ (lastGen.n > 0 /\ ~cfg.support_multi_round) => lastGen.infer_kwargs = {}

\* C26 amended: for a single-round template the extra arguments hold nothing
\* of earlier turns, only the configured stop words and the media entered for
\* this turn (nothing at all with the vllm backend).
C26_FreshKwargs ==
    (lastGen.n > 0 /\ ~cfg.support_multi_round) =>
        lastGen.infer_kwargs =
           IF cfg.infer_backend = "vllm" THEN {}
           ELSE (IF cfg.stop_words THEN {"stop_words"} ELSE {})
                \cup (IF lastGen.entered THEN {"images"} ELSE {})

\* a recorded result is never rewritten
C26_ResultKept ==
    \A i \in 1 .. Len(result) : Len(result') >= i /\ result'[i] = result[i]

C26_HistoryChainFreshKwargs ==
    [](C26_Chain /\ C26_FreshKwargs) /\ [][C26_ResultKept]_vars

C26_Witness ==
    /\ ~cfg.support_multi_round /\ cfg.infer_backend = "pt"
    /\ lastGen.n = 2 /\ lastGen.expected = <<"turn">> /\ lastGen.history = <<>>
    /\ lastGen.infer_kwargs = {"stop_words"}
    /\ result[2].history = <<>>

\* --- llm_infer over a dataset, for every setting of the options
DatasetLens == {1, 2, VerboseThreshold - 1, VerboseThreshold}

NextBatch ==
    \/ \E verbose \in {NoFlag, Flag(TRUE), Flag(FALSE)}, stream \in BOOLEAN,
          infer_backend \in {"pt", "vllm"}, size \in DatasetLens :
          BatchStart(verbose, stream, infer_backend, size)
    \/ BatchVllm
    \/ BatchSample
    \/ BatchReturn
    \/ BatchEnd

SpecBatch == Init /\ [][NextBatch]_vars

\* C27: in dataset inference, after the option normalisation streaming is on
\* only if verbose is on, and the assertion of the per-sample vllm branch
\* never fails, for every setting of verbose, stream and backend.
C27_StreamOnlyIfVerbose ==
    /\ batch.pc # "assert_failed"
    /\ batch.pc # "off" =>
          /\ batch.verbose \in {Flag(TRUE), Flag(FALSE)}
          /\ batch.stream => batch.verbose = Flag(TRUE)

C27_Witness ==
    /\ batch.pc = "normalised" /\ batch.infer_backend = "vllm" /\ batch.i = 1
    /\ batch.stream /\ batch.verbose = Flag(TRUE)
    /\ batch.given_verbose = NoFlag

C28_State ==
    \A p \in Procs :
        LET m == merge[p]
            wanted == ~m.existed \/ m.replace_if_exists IN
        /\ m.status = "skipped" => (~wanted /\ ~Has(events[p], "loader"))
        /\ m.status \in {"preparing", "saving", "saved"} => wanted
        /\ m.status = "saved" =>
              /\ Has(events[p], "loader") /\ Has(events[p], "merge_and_unload")
              /\ Has(events[p], "save:end")
              /\ m.merged_lora_path \in merged_dirs
        /\ pc[p] = "merge_done" =>
              /\ m.status = IF wanted THEN "saved" ELSE "skipped"
              /\ args[p].sft_type = "full"
              /\ args[p].ckpt_dir = m.merged_lora_path
              /\ m.merged_lora_path = MergedLoraPath(m.ckpt_dir)
        /\ m.again =>
              (pc[p] = "merge_raised" /\ m.status = "raised"
                  /\ m.error = "AssertionError")

C28_SecondCall ==
    \A p \in Procs :
        (merge'[p].again /\ ~merge[p].again) => merged_dirs' = merged_dirs

\* C28: merge_lora loads, merges and saves exactly when the merged directory
\* does not exist or replace_if_exists is true; either way it returns with
\* args.sft_type 'full' and args.ckpt_dir the merged path, and a second call
\* on the same args fails the sft_type assertion and leaves the merged
\* directory alone.
C28_MergeOnce == []C28_State /\ [][C28_SecondCall]_vars

C28_Witness ==
    /\ merge[1].again /\ pc[1] = "merge_raised"
    /\ args[1].sft_type = "full" /\ args[1].ckpt_dir = "/ckpt/local-merged"
    /\ "/ckpt/local-merged" \in merged_dirs


\* --- one process calling the registered loaders of baichuan2-7b-chat-int4 and
\* of the yuan2 entries directly, the cache folder being re-populated by downloads
NextLoader ==
    \/ \E device_map \in DeviceMaps, load_model \in BOOLEAN, inner_raises \in BOOLEAN :
          Baichuan2Int4Call(1, device_map, load_model, inner_raises)
    \/ \E model_name \in YuanNames, load_model \in BOOLEAN, readable \in BOOLEAN :
          YuanCall(1, model_name, load_model, readable)
    \/ \E model_name \in YuanNames : Materialise(model_name)

SpecLoader == Init /\ [][NextLoader]_vars

\* C29: after a call of get_model_tokenizer_baichuan2_int4 has ended, whether
\* the inner loader returned or raised, accelerate.infer_auto_device_map is the
\* function it was before the call.
C29_InferAutoDeviceMapRestored ==
    lastLoad.fn = "baichuan2_int4" => lastLoad.after = lastLoad.before

\* C30: get_model_tokenizer_yuan on an existing checkpoint directory whose name
\* contains '.': every read of the configuration, tokenizer and model is from a
\* path that exists at the time of the read, and after the call has ended,
\* returned or raised, the directory is at its original path.
C30_RenameTemporary ==
    (/\ lastLoad.fn = "yuan"
     /\ NeedRename(lastLoad.model_name)
     /\ lastLoad.model_name \in lastLoad.disk_before)
    => /\ \A i \in DOMAIN lastLoad.reads : lastLoad.reads[i].existed
       /\ lastLoad.model_name \in lastLoad.disk_after

=============================================================================
